---------------------------- MODULE Spec2Model ----------------------------
(***************************************************************************)
(* TILT: the VM interpreter (tilt-vm), the host ABIs (tilt-host-abi), the  *)
(* AST-to-IR lowerer (tilt-ir/lowering.rs) and the Cranelift translator    *)
(* (tilt-codegen-cranelift), modelled for a 64-bit target.                 *)
(*                                                                         *)
(* Integers keep their widths, scaled: a byte holds ByteBits bits, so an   *)
(* i32 has 4*ByteBits bits and an i64/u64/usize has 8*ByteBits bits.       *)
(***************************************************************************)
EXTENDS Integers, Sequences, FiniteSets, TLC

(***************************************************************************)
(* Bounds                                                                  *)
(***************************************************************************)
\* bits held by one byte of the model
ByteBits == 2
\* largest allocation the host allocator can satisfy (bytes)
HeapLimit == 16
\* top-level call_function invocations made on one VM
MaxCalls == 2
\* frames of compiled code the stack of the process holds
NativeStackDepth == 4
\* largest cap given to set_max_stack_depth
MaxDepthCap == 2
\* the largest count the counting loop is run to
MaxN == 10

(***************************************************************************)
(* Machine integers                                                        *)
(***************************************************************************)
Pow2(n) == 2 ^ n

\* std::mem::size_of for the IR types (VM SizeOf arm, 64-bit target)
SizeOfType(ty) ==
  CASE ty = "I32" -> 4
    [] ty = "I64" -> 8
    [] ty = "F32" -> 4
    [] ty = "F64" -> 8
    [] ty = "Usize" -> 8
    [] ty = "Void" -> 0

BitsOf(ty) == SizeOfType(ty) * ByteBits

MinInt(ty) == IF ty = "Usize" THEN 0 ELSE 0 - Pow2(BitsOf(ty) - 1)
MaxInt(ty) == IF ty = "Usize" THEN Pow2(BitsOf(ty)) - 1 ELSE Pow2(BitsOf(ty) - 1) - 1

InRange(ty, x) == MinInt(ty) <= x /\ x <= MaxInt(ty)

\* x reduced modulo 2^N into the range of ty (two's complement for I32/I64)
Wrap(ty, x) ==
  LET m == Pow2(BitsOf(ty))
      r == x % m
  IN IF ty # "Usize" /\ r > MaxInt(ty) THEN r - m ELSE r

\* a * b mod m for 0 <= a, b < m, without leaving the range of machine words
RECURSIVE MulMod(_, _, _)
MulMod(a, b, m) ==
  IF b = 0 THEN 0
  ELSE LET h == MulMod(a, b \div 2, m)
       IN (2 * h + (IF b % 2 = 1 THEN a ELSE 0)) % m

WrappingMul(ty, a, b) ==
  LET m == Pow2(BitsOf(ty))
  IN Wrap(ty, MulMod(a % m, b % m, m))

Abs(x) == IF x < 0 THEN 0 - x ELSE x

\* Rust integer division: truncation toward zero
TruncDiv(a, b) ==
  LET q == Abs(a) \div Abs(b)
  IN IF (a < 0) = (b < 0) THEN q ELSE 0 - q

(***************************************************************************)
(* RuntimeValue (tilt-host-abi)                                            *)
(***************************************************************************)
I32(v) == [ty |-> "I32", v |-> v]
I64(v) == [ty |-> "I64", v |-> v]
Usize(v) == [ty |-> "Usize", v |-> v]
Void == [ty |-> "Void", v |-> 0]

get_type(rv) == rv.ty

IntTypes == {"I32", "I64", "Usize"}


(***************************************************************************)
(* IR (tilt-ir): instructions, terminators, blocks, functions, programs    *)
(***************************************************************************)
BinaryOp(dest, op, ty, lhs, rhs) ==
  [kind |-> "BinaryOp", dest |-> dest, op |-> op, ty |-> ty, lhs |-> lhs, rhs |-> rhs]
UnaryOp(dest, op, ty, operand) ==
  [kind |-> "UnaryOp", dest |-> dest, op |-> op, ty |-> ty, operand |-> operand]
Call(dest, function, args, return_type) ==
  [kind |-> "Call", dest |-> dest, function |-> function, args |-> args,
   return_type |-> return_type]
CallVoid(function, args) == [kind |-> "CallVoid", function |-> function, args |-> args]
Load(dest, ty, address) == [kind |-> "Load", dest |-> dest, ty |-> ty, address |-> address]
Store(address, value, ty) ==
  [kind |-> "Store", address |-> address, value |-> value, ty |-> ty]
Const(dest, value, ty) == [kind |-> "Const", dest |-> dest, value |-> value, ty |-> ty]
PtrAdd(dest, ptr, offset) == [kind |-> "PtrAdd", dest |-> dest, ptr |-> ptr, offset |-> offset]
SizeOf(dest, ty) == [kind |-> "SizeOf", dest |-> dest, ty |-> ty]
Alloc(dest, size) == [kind |-> "Alloc", dest |-> dest, size |-> size]
Free(ptr) == [kind |-> "Free", ptr |-> ptr]
Convert(dest, src, from_ty, to_ty) ==
  [kind |-> "Convert", dest |-> dest, src |-> src, from_ty |-> from_ty, to_ty |-> to_ty]

\* Ret { value: Option<ValueId> }
RetNone == [kind |-> "Ret", has_value |-> FALSE, value |-> 0]
Ret(v) == [kind |-> "Ret", has_value |-> TRUE, value |-> v]
Br(target, args) == [kind |-> "Br", target |-> target, args |-> args]
BrIf(cond, true_target, true_args, false_target, false_args) ==
  [kind |-> "BrIf", cond |-> cond, true_target |-> true_target, true_args |-> true_args,
   false_target |-> false_target, false_args |-> false_args]

\* a (ValueId, Type) block parameter
Param(id, ty) == [id |-> id, ty |-> ty]

BasicBlock(id, params, instructions, terminator) ==
  [id |-> id, params |-> params, instructions |-> instructions, terminator |-> terminator]

\* constants: ValueId -> (literal, type), a function on the ids it defines
NoConstants == [v \in {} |-> [value |-> 0, ty |-> "I32"]]
ConstEntry(value, ty) == [value |-> value, ty |-> ty]

\* Function::new
NewFunction(name, params, return_type) ==
  [name |-> name, params |-> params, return_type |-> return_type, blocks |-> <<>>,
   entry_block |-> 0, next_value_id |-> 0, constants |-> NoConstants]

\* a function put together block by block, as the IR builder does
Function(name, params, return_type, blocks, constants, next_value_id) ==
  [NewFunction(name, params, return_type) EXCEPT
     !.blocks = blocks, !.constants = constants, !.next_value_id = next_value_id]

ImportDecl(name, params, return_type) ==
  [name |-> name, params |-> params, return_type |-> return_type]

Program(imports, functions) == [imports |-> imports, functions |-> functions]

BinaryOperators ==
  {"Add", "Sub", "Mul", "Div", "Rem", "And", "Or", "Xor", "Shl", "Shr",
   "Eq", "Ne", "Lt", "Le", "Gt", "Ge"}
UnaryOperators == {"Neg", "Not"}

\* position of the first element of seq satisfying Test, 0 when there is none
FirstIndex(seq, Test(_)) ==
  LET hits == {i \in 1..Len(seq) : Test(seq[i])}
  IN IF hits = {} THEN 0 ELSE CHOOSE i \in hits : \A j \in hits : i <= j

\* program.functions.iter().find(|f| f.name == name)
FindFunction(prog, name) ==
  LET IsIt(f) == f.name = name IN FirstIndex(prog.functions, IsIt)

\* function.blocks.iter().find(|b| b.id == id)
FindBlock(func, id) ==
  LET IsIt(b) == b.id = id IN FirstIndex(func.blocks, IsIt)

(***************************************************************************)
(* Results                                                                 *)
(***************************************************************************)
Ok(v) == [tag |-> "ok", value |-> v]
Err(e) == [tag |-> "err", err |-> e]
Panic == [tag |-> "panic"]
\* no call_function has returned yet
NoResult == [tag |-> "none"]

(***************************************************************************)
(* Host ABI (tilt-host-abi)                                                *)
(***************************************************************************)
\* first address handed out by MemoryHostABI
NextAddrStart == 4096
\* padding MemoryHostABI::allocate leaves between allocations
AllocPadding == 8

ConsoleFunctions ==
  {"print_hello", "print_i32", "print_i64", "print_char", "println", "read_i32"}

\* available_functions of each host ABI
available_functions(abi) ==
  CASE abi = "console" -> ConsoleFunctions
    [] abi = "memory" -> {"alloc", "free"} \cup ConsoleFunctions
    [] abi = "null" -> {}

\* a host ABI that owns to no function
has_no_function(abi, name) == FALSE

has_function(abi, name) == name \in available_functions(abi)

\* what read_i32 finds on stdin: a line that parses as i32, or one that does not
StdinInputs == {[ok |-> TRUE, v |-> 7], [ok |-> FALSE, v |-> 0]}

\* char::from_u32(value as u32).is_some()
IsChar(value) ==
  /\ value >= 0
  /\ (value < 55296 \/ (value > 57343 /\ value <= 1114111))

\* ConsoleHostABI::call_host_function; as_i32 / as_i64 panic on another variant
ConsoleCall(name, args, inp) ==
  CASE name = "print_hello" -> IF Len(args) # 0 THEN Err("HostCallError") ELSE Ok(Void)
    [] name = "print_i32" ->
         IF Len(args) # 1 THEN Err("HostCallError")
         ELSE IF args[1].ty # "I32" THEN Panic ELSE Ok(Void)
    [] name = "print_i64" ->
         IF Len(args) # 1 THEN Err("HostCallError")
         ELSE IF args[1].ty # "I64" THEN Panic ELSE Ok(Void)
    [] name = "print_char" ->
         IF Len(args) # 1 THEN Err("HostCallError")
         ELSE IF args[1].ty # "I32" THEN Panic
         ELSE IF IsChar(args[1].v) THEN Ok(Void) ELSE Err("HostCallError")
    [] name = "println" -> IF Len(args) # 0 THEN Err("HostCallError") ELSE Ok(Void)
    [] name = "read_i32" ->
         IF Len(args) # 0 THEN Err("HostCallError")
         ELSE IF inp.ok THEN Ok(I32(inp.v)) ELSE Err("HostCallError")
    [] OTHER -> Err("HostCallError")

\* the live allocations: base address -> bytes
NoMemory == [b \in {} |-> <<>>]

Zeroes(n) == [i \in 1..n |-> 0]

\* an allocator that hands the start of the address range out again once the
\* allocation there has been freed
allocate_reusing(mem, naddr, size) ==
  IF size = 0 THEN [tag |-> "ok", addr |-> 0, memory |-> mem, next_addr |-> naddr]
  ELSE IF size > HeapLimit THEN Panic
  ELSE LET addr == IF NextAddrStart \in DOMAIN mem THEN naddr ELSE NextAddrStart
       IN [tag |-> "ok", addr |-> addr,
           memory |-> [b \in DOMAIN mem \cup {addr} |->
                         IF b = addr THEN Zeroes(size) ELSE mem[b]],
           next_addr |-> IF addr = naddr THEN naddr + size + AllocPadding ELSE naddr]

\* MemoryHostABI::allocate; the allocator cannot satisfy more than HeapLimit bytes
allocate(mem, naddr, size) ==
  IF size = 0 THEN [tag |-> "ok", addr |-> 0, memory |-> mem, next_addr |-> naddr]
  ELSE IF size > HeapLimit THEN Panic
  ELSE [tag |-> "ok", addr |-> naddr,
        memory |-> [b \in DOMAIN mem \cup {naddr} |->
                      IF b = naddr THEN Zeroes(size) ELSE mem[b]],
        next_addr |-> naddr + size + AllocPadding]

\* a deallocate that takes any address inside a live allocation for its base
deallocate_within(mem, addr) ==
  LET holders == {b \in DOMAIN mem : b <= addr /\ addr < b + Len(mem[b])}
  IN IF addr = 0 THEN [tag |-> "ok", memory |-> mem]
     ELSE IF holders # {}
          THEN [tag |-> "ok", memory |-> [b \in DOMAIN mem \ holders |-> mem[b]]]
          ELSE Err("HostCallError")

\* MemoryHostABI::deallocate
deallocate(mem, addr) ==
  IF addr = 0 THEN [tag |-> "ok", memory |-> mem]
  ELSE IF addr \in DOMAIN mem
       THEN [tag |-> "ok", memory |-> [b \in DOMAIN mem \ {addr} |-> mem[b]]]
       ELSE Err("HostCallError")

\* MemoryHostABI::call_host_function; as_ptr panics on a value that is not Usize
MemoryCall(name, args, mem, naddr, inp) ==
  CASE name = "alloc" ->
         IF Len(args) # 1 THEN Err("HostCallError")
         ELSE IF args[1].ty # "Usize" THEN Panic
         ELSE LET r == allocate(mem, naddr, args[1].v)
              IN IF r.tag = "panic" THEN Panic
                 ELSE [tag |-> "ok", value |-> Usize(r.addr), memory |-> r.memory,
                       next_addr |-> r.next_addr]
    [] name = "free" ->
         IF Len(args) # 1 THEN Err("HostCallError")
         ELSE IF args[1].ty # "Usize" THEN Panic
         ELSE LET r == deallocate(mem, args[1].v)
              IN IF r.tag = "err" THEN r
                 ELSE [tag |-> "ok", value |-> Void, memory |-> r.memory,
                       next_addr |-> naddr]
    [] OTHER ->
         LET r == ConsoleCall(name, args, inp)
         IN IF r.tag = "ok"
            THEN [tag |-> "ok", value |-> r.value, memory |-> mem, next_addr |-> naddr]
            ELSE r

\* HostABI::call_host_function, dispatched on the ABI the VM was built with
call_host_function(abi, name, args, mem, naddr, inp) ==
  CASE abi = "memory" -> MemoryCall(name, args, mem, naddr, inp)
    [] abi = "console" ->
         LET r == ConsoleCall(name, args, inp)
         IN IF r.tag = "ok"
            THEN [tag |-> "ok", value |-> r.value, memory |-> mem, next_addr |-> naddr]
            ELSE r
    [] abi = "null" -> Err("HostCallError")


(***************************************************************************)
(* Guest memory of MemoryHostABI                                           *)
(***************************************************************************)
\* n bytes, most significant first, of the unsigned word x
to_be_bytes(x, n) ==
  [i \in 1..n |-> (x \div Pow2(ByteBits * (n - i))) % Pow2(ByteBits)]

\* v.to_le_bytes(): n bytes, least significant first, of the unsigned word x
to_le_bytes(x, n) ==
  [i \in 1..n |-> (x \div Pow2(ByteBits * (i - 1))) % Pow2(ByteBits)]

\* uN::from_le_bytes(bytes)
RECURSIVE from_le_bytes(_)
from_le_bytes(bytes) ==
  IF Len(bytes) = 0 THEN 0
  ELSE bytes[1] + Pow2(ByteBits) * from_le_bytes(Tail(bytes))

\* the allocations whose range contains [addr, addr + size)
Containing(mem, addr, size) ==
  {b \in DOMAIN mem : addr >= b /\ addr + size <= b + Len(mem[b])}

\* addr + size as u64 leaves the u64 range: the sum overflows (overflow checks)
\* or wraps and the slice index is out of range; reached as soon as the loop
\* meets an allocation at or below addr
RangeOverflows(mem, addr, size) ==
  /\ addr + size > MaxInt("Usize")
  /\ \E b \in DOMAIN mem : addr >= b

\* MemoryHostABI::read_memory
read_memory(mem, addr, size) ==
  IF RangeOverflows(mem, addr, size) THEN Panic
  ELSE LET hit == Containing(mem, addr, size)
       IN IF hit = {} \/ addr + size > MaxInt("Usize") THEN Err("invalid access")
          ELSE LET b == CHOOSE x \in hit : TRUE
                   off == addr - b
               IN [tag |-> "ok", bytes |-> SubSeq(mem[b], off + 1, off + size)]

\* a write that also clears the byte after the data when the allocation has one
write_memory_spilling(mem, addr, data) ==
  IF RangeOverflows(mem, addr, Len(data)) THEN Panic
  ELSE LET hit == Containing(mem, addr, Len(data))
       IN IF hit = {} \/ addr + Len(data) > MaxInt("Usize") THEN Err("invalid write")
          ELSE LET b == CHOOSE x \in hit : TRUE
                   off == addr - b
               IN [tag |-> "ok",
                   memory |-> [x \in DOMAIN mem |->
                     IF x # b THEN mem[x]
                     ELSE [i \in 1..Len(mem[b]) |->
                             IF i > off /\ i <= off + Len(data) THEN data[i - off]
                             ELSE IF i = off + Len(data) + 1 THEN (mem[b][i] + 1) % Pow2(ByteBits)
                             ELSE mem[b][i]]]]

\* MemoryHostABI::write_memory
write_memory(mem, addr, data) ==
  IF RangeOverflows(mem, addr, Len(data)) THEN Panic
  ELSE LET hit == Containing(mem, addr, Len(data))
       IN IF hit = {} \/ addr + Len(data) > MaxInt("Usize") THEN Err("invalid write")
          ELSE LET b == CHOOSE x \in hit : TRUE
                   off == addr - b
               IN [tag |-> "ok",
                   memory |-> [x \in DOMAIN mem |->
                     IF x # b THEN mem[x]
                     ELSE [i \in 1..Len(mem[b]) |->
                             IF i > off /\ i <= off + Len(data)
                             THEN data[i - off] ELSE mem[b][i]]]]

\* MemoryHostABI::read_value
read_value(mem, addr, ty) ==
  IF ty = "Void" THEN Err("cannot read void")
  ELSE LET r == read_memory(mem, addr, SizeOfType(ty))
       IN IF r.tag # "ok" THEN r
          ELSE CASE ty \in {"I32", "F32"} -> Ok(I32(Wrap("I32", from_le_bytes(r.bytes))))
                 [] ty \in {"I64", "F64"} -> Ok(I64(Wrap("I64", from_le_bytes(r.bytes))))
                 [] ty = "Usize" -> Ok(Usize(from_le_bytes(r.bytes)))

\* MemoryHostABI::write_value
write_value(mem, addr, value) ==
  IF value.ty = "Void" THEN Err("cannot write void")
  ELSE write_memory(mem, addr,
         to_le_bytes(value.v % Pow2(BitsOf(value.ty)), SizeOfType(value.ty)))

\* HostABI::read_memory_value; only the memory ABI overrides the failing default
read_memory_value(abi, mem, addr, ty) ==
  IF abi = "memory" THEN read_value(mem, addr, ty) ELSE Err("unsupported")

\* HostABI::write_memory_value
write_memory_value(abi, mem, addr, value) ==
  IF abi = "memory" THEN write_value(mem, addr, value) ELSE Err("unsupported")


(***************************************************************************)
(* VM (tilt-vm): frames                                                    *)
(***************************************************************************)
\* VM::new: max_stack_depth
DefaultMaxStackDepth == 1000

NoValues == [v \in {} |-> Void]

\* StackFrame::new
StackFrame(function_name, entry_block) ==
  [function_name |-> function_name, values |-> NoValues,
   current_block |-> entry_block, instruction_pointer |-> 0]

\* StackFrame::get_value succeeds
HasValue(values, id) == id \in DOMAIN values

\* StackFrame::set_value / values.insert
set_value(values, id, rv) ==
  [x \in DOMAIN values \cup {id} |-> IF x = id THEN rv ELSE values[x]]

\* the typed RuntimeValue of a literal (call_function constants, Const)
ConstValue(value, ty) ==
  CASE ty = "I32" -> Ok(I32(Wrap("I32", value)))
    [] ty = "I64" -> Ok(I64(value))
    [] ty = "Usize" -> Ok(Usize(Wrap("Usize", value)))
    [] ty = "Void" -> Ok(Void)
    [] ty \in {"F32", "F64"} -> Err("InvalidInstruction")

\* args bound to ValueId(0..), then the constants table on top
EntryValues(func, args) ==
  [x \in {i - 1 : i \in 1..Len(args)} \cup DOMAIN func.constants |->
     IF x \in DOMAIN func.constants
     THEN ConstValue(func.constants[x].value, func.constants[x].ty).value
     ELSE args[x + 1]]

\* a cap reached one frame late
StackFullPastCap(depth, max_depth) == depth > max_depth

\* self.call_stack.len() >= self.max_stack_depth
StackFull(depth, max_depth) == depth >= max_depth

\* VM::call_function up to the push of the frame
call_function(prog, depth, max_depth, name, args) ==
  LET fi == FindFunction(prog, name)
      func == prog.functions[fi]
  IN IF fi = 0 THEN Err("FunctionNotFound")
     ELSE IF Len(args) # Len(func.params) THEN Err("InvalidInstruction")
     ELSE IF StackFull(depth, max_depth) THEN Err("StackOverflow")
     ELSE IF Len(func.blocks) = 0 THEN Err("InvalidInstruction")
     ELSE IF \E i \in 1..Len(args) : get_type(args[i]) # func.params[i]
          THEN Err("TypeMismatch")
     ELSE IF \E c \in DOMAIN func.constants : func.constants[c].ty \in {"F32", "F64"}
          THEN Err("InvalidInstruction")
     ELSE [tag |-> "frame",
           frame |-> [StackFrame(name, func.blocks[1].id) EXCEPT
                        !.values = EntryValues(func, args)]]


(***************************************************************************)
(* VM: execute_instruction                                                 *)
(***************************************************************************)
RV(ty, v) == [ty |-> ty, v |-> v]

\* the exact product a * b lies outside the range of the signed type ty
MulOverflows(ty, a, b) ==
  IF a = 0 \/ b = 0 THEN FALSE
  ELSE IF (a < 0) = (b < 0) THEN Abs(a) > MaxInt(ty) \div Abs(b)
  ELSE LET lim == Pow2(BitsOf(ty) - 1)
       IN Abs(a) > lim \div Abs(b)

\* the operators `+`, `-`, `*` on i32 / i64: an overflow panics when the build
\* has overflow checks and wraps when it has not
PlainArith(op, ty, a, b, oc) ==
  LET over == CASE op = "Add" -> ~InRange(ty, a + b)
                [] op = "Sub" -> ~InRange(ty, a - b)
                [] op = "Mul" -> MulOverflows(ty, a, b)
      wrapped == CASE op = "Add" -> Wrap(ty, a + b)
                   [] op = "Sub" -> Wrap(ty, a - b)
                   [] op = "Mul" -> WrappingMul(ty, a, b)
  IN IF over /\ oc THEN Panic ELSE Ok(RV(ty, wrapped))

\* wrapping_add / wrapping_sub / wrapping_mul on usize
WrappingArith(op, a, b) ==
  CASE op = "Add" -> Usize(Wrap("Usize", a + b))
    [] op = "Sub" -> Usize(Wrap("Usize", a - b))
    [] op = "Mul" -> Usize(WrappingMul("Usize", a, b))

\* the BinaryOp arm of execute_instruction, given both operand values
VMBinaryOp(op, l, r, oc) ==
  LET same == l.ty = r.ty /\ l.ty \in IntTypes
  IN CASE op \in {"Add", "Sub", "Mul"} ->
            IF ~same THEN Err("TypeMismatch")
            ELSE IF l.ty = "Usize" THEN Ok(WrappingArith(op, l.v, r.v))
            ELSE PlainArith(op, l.ty, l.v, r.v, oc)
       [] op = "Div" ->
            IF ~same THEN Err("TypeMismatch")
            ELSE IF r.v = 0 THEN Err("DivisionByZero")
            ELSE IF l.ty # "Usize" /\ l.v = MinInt(l.ty) /\ r.v = 0 - 1 THEN Panic
            ELSE Ok(RV(l.ty, TruncDiv(l.v, r.v)))
       [] op = "Eq" ->
            IF ~same THEN Err("TypeMismatch")
            ELSE Ok(I32(IF l.v = r.v THEN 1 ELSE 0))
       [] op = "Lt" ->
            IF ~same THEN Err("TypeMismatch")
            ELSE Ok(I32(IF l.v < r.v THEN 1 ELSE 0))
       [] OTHER -> Err("InvalidInstruction")

\* the Convert arm of execute_instruction
VMConvert(src, from_ty, to_ty) ==
  IF get_type(src) # from_ty THEN Err("TypeMismatch")
  ELSE IF from_ty \in IntTypes /\ to_ty \in IntTypes /\ from_ty # to_ty
       THEN Ok(RV(to_ty, Wrap(to_ty, src.v)))
       ELSE Err("InvalidInstruction")

\* the values of the ValueIds in ids, in order
ArgValues(values, ids) == [i \in 1..Len(ids) |-> values[ids[i]]]

AllPresent(values, ids) == \A i \in 1..Len(ids) : HasValue(values, ids[i])

\* a step that only writes dest
Wrote(values, dest, rv, mem, naddr) ==
  [tag |-> "ok", values |-> set_value(values, dest, rv), memory |-> mem,
   next_addr |-> naddr]

\* a host call made on behalf of an instruction; stores the result when there
\* is a dest
HostCall(abi, name, args, values, has_dest, dest, mem, naddr, inp) ==
  LET served(r) ==
        CASE r.tag = "panic" -> Panic
          [] r.tag = "err" -> Err("HostCallError")
          [] r.tag = "ok" ->
               [tag |-> "ok",
                values |-> IF has_dest THEN set_value(values, dest, r.value) ELSE values,
                memory |-> r.memory, next_addr |-> r.next_addr]
  IN served(call_host_function(abi, name, args, mem, naddr, inp))

\* VM::execute_instruction on the top frame's values. The result is "ok" with
\* the new frame values and host memory, an error, a panic, or "call" when the
\* instruction enters call_function for a program function.
execute_instruction(instr, values, abi, mem, naddr, oc, inp) ==
  CASE instr.kind \in {"Call", "CallVoid"} ->
         IF ~AllPresent(values, instr.args) THEN Err("ValueNotFound")
         ELSE IF has_function(abi, instr.function)
              THEN HostCall(abi, instr.function, ArgValues(values, instr.args), values,
                            instr.kind = "Call",
                            IF instr.kind = "Call" THEN instr.dest ELSE 0,
                            mem, naddr, inp)
              ELSE [tag |-> "call", function |-> instr.function,
                    args |-> ArgValues(values, instr.args)]
    [] instr.kind = "Const" ->
         LET c == ConstValue(instr.value, instr.ty)
         IN IF c.tag = "err" THEN c ELSE Wrote(values, instr.dest, c.value, mem, naddr)
    [] instr.kind = "BinaryOp" ->
         IF ~HasValue(values, instr.lhs) \/ ~HasValue(values, instr.rhs)
         THEN Err("ValueNotFound")
         ELSE LET computed(r) ==
                    IF r.tag = "ok" THEN Wrote(values, instr.dest, r.value, mem, naddr) ELSE r
              IN computed(VMBinaryOp(instr.op, values[instr.lhs], values[instr.rhs], oc))
    [] instr.kind = "UnaryOp" -> Err("InvalidInstruction")
    [] instr.kind = "Load" ->
         IF ~HasValue(values, instr.address) THEN Err("ValueNotFound")
         ELSE IF values[instr.address].ty # "Usize" THEN Err("TypeMismatch")
         ELSE LET loaded(r) ==
                    CASE r.tag = "panic" -> Panic
                      [] r.tag = "err" -> Err("InvalidInstruction")
                      [] r.tag = "ok" -> Wrote(values, instr.dest, r.value, mem, naddr)
              IN loaded(read_memory_value(abi, mem, values[instr.address].v, instr.ty))
    [] instr.kind = "Store" ->
         IF ~HasValue(values, instr.address) \/ ~HasValue(values, instr.value)
         THEN Err("ValueNotFound")
         ELSE IF values[instr.address].ty # "Usize" THEN Err("TypeMismatch")
         ELSE LET stored(r) ==
                    CASE r.tag = "panic" -> Panic
                      [] r.tag = "err" -> Err("InvalidInstruction")
                      [] r.tag = "ok" ->
                           [tag |-> "ok", values |-> values, memory |-> r.memory,
                            next_addr |-> naddr]
              IN stored(write_memory_value(abi, mem, values[instr.address].v,
                                           values[instr.value]))
    [] instr.kind = "PtrAdd" ->
         IF ~HasValue(values, instr.ptr) \/ ~HasValue(values, instr.offset)
         THEN Err("ValueNotFound")
         ELSE IF values[instr.ptr].ty = "Usize" /\ values[instr.offset].ty = "Usize"
              THEN Wrote(values, instr.dest,
                         Usize(Wrap("Usize", values[instr.ptr].v + values[instr.offset].v)),
                         mem, naddr)
              ELSE Err("TypeMismatch")
    [] instr.kind = "SizeOf" ->
         Wrote(values, instr.dest, Usize(SizeOfType(instr.ty)), mem, naddr)
    [] instr.kind = "Alloc" ->
         IF ~HasValue(values, instr.size) THEN Err("ValueNotFound")
         ELSE IF values[instr.size].ty # "Usize" THEN Err("TypeMismatch")
         ELSE HostCall(abi, "alloc", <<values[instr.size]>>, values, TRUE, instr.dest,
                       mem, naddr, inp)
    [] instr.kind = "Free" ->
         IF ~HasValue(values, instr.ptr) THEN Err("ValueNotFound")
         ELSE IF values[instr.ptr].ty # "Usize" THEN Err("TypeMismatch")
         ELSE HostCall(abi, "free", <<values[instr.ptr]>>, values, FALSE, 0,
                       mem, naddr, inp)
    [] instr.kind = "Convert" ->
         IF ~HasValue(values, instr.src) THEN Err("ValueNotFound")
         ELSE LET r == VMConvert(values[instr.src], instr.from_ty, instr.to_ty)
              IN IF r.tag = "ok" THEN Wrote(values, instr.dest, r.value, mem, naddr) ELSE r


(***************************************************************************)
(* VM: terminators                                                         *)
(***************************************************************************)
\* BrIf taking the true branch on zero
Falsy(cond) ==
  IF cond.ty \in {"I32", "I64"} THEN Ok(cond.v = 0) ELSE Err("TypeMismatch")

\* BrIf: is the condition value truthy; TypeMismatch for a non-integer
Truthy(cond) ==
  IF cond.ty \in {"I32", "I64"} THEN Ok(cond.v # 0) ELSE Err("TypeMismatch")

\* the values after binding the parameters from i on one after the other, each
\* argument read when its parameter is bound
RECURSIVE BoundInTurn(_, _, _, _)
BoundInTurn(values, params, args, i) ==
  IF i > Len(params) THEN values
  ELSE BoundInTurn([x \in DOMAIN values \cup {params[i].id} |->
                      IF x = params[i].id THEN values[args[i]] ELSE values[x]],
                   params, args, i + 1)

\* a branch that binds the parameters of the target in turn
take_branch_in_turn(func, frame, target, args) ==
  IF Len(args) = 0
  THEN Ok([frame EXCEPT !.current_block = target, !.instruction_pointer = 0])
  ELSE LET ti == FindBlock(func, target)
           tb == func.blocks[ti]
       IN IF ti = 0 THEN Err("BlockNotFound")
          ELSE IF Len(args) # Len(tb.params) THEN Err("InvalidInstruction")
          ELSE IF ~AllPresent(frame.values, args) THEN Err("ValueNotFound")
          ELSE Ok([frame EXCEPT
                     !.current_block = target,
                     !.instruction_pointer = 0,
                     !.values = BoundInTurn(frame.values, tb.params, args, 1)])

\* the Br arm (and the taken BrIf arm) of execute_function: the frame after the
\* branch, or the error
take_branch(func, frame, target, args) ==
  IF Len(args) = 0
  THEN Ok([frame EXCEPT !.current_block = target, !.instruction_pointer = 0])
  ELSE LET ti == FindBlock(func, target)
           tb == func.blocks[ti]
       IN IF ti = 0 THEN Err("BlockNotFound")
          ELSE IF Len(args) # Len(tb.params) THEN Err("InvalidInstruction")
          ELSE IF ~AllPresent(frame.values, args) THEN Err("ValueNotFound")
          ELSE LET arg_values == ArgValues(frame.values, args)
                   pids == {tb.params[i].id : i \in 1..Len(tb.params)}
                   \* later parameters overwrite earlier ones with the same id
                   last(id) == CHOOSE i \in 1..Len(tb.params) :
                                 /\ tb.params[i].id = id
                                 /\ \A j \in 1..Len(tb.params) :
                                      tb.params[j].id = id => j <= i
               IN Ok([frame EXCEPT
                        !.current_block = target,
                        !.instruction_pointer = 0,
                        !.values = [x \in DOMAIN frame.values \cup pids |->
                                      IF x \in pids THEN arg_values[last(x)]
                                      ELSE frame.values[x]]])

(***************************************************************************)
(* AST (tilt-ast)                                                          *)
(***************************************************************************)
TypedIdentifier(name, ty) == [name |-> name, ty |-> ty]

\* Value::Variable / Value::Constant
Variable(name) == [kind |-> "Variable", name |-> name, value |-> 0]
Constant(value) == [kind |-> "Constant", name |-> "", value |-> value]

\* an operation mnemonic: "i32.add" is Op("i32", "add"), a mnemonic without a
\* dot such as "alloc" is Op("", "alloc")
Op(type_part, op_part) == [type_part |-> type_part, op_part |-> op_part]

OperationExpr(op, args) == [kind |-> "Operation", op |-> op, args |-> args]
CallExpr(name, args) == [kind |-> "Call", name |-> name, args |-> args]
ConstantExpr(value) == [kind |-> "Constant", value |-> value]
PhiExpr == [kind |-> "Phi"]

Assign(dest, expr) == [kind |-> "Assign", dest |-> dest, expr |-> expr]
ExpressionStatement(expr) == [kind |-> "ExpressionStatement", expr |-> expr]

AstRetVoid == [kind |-> "Ret", has_value |-> FALSE, value |-> Constant(0)]
AstRet(value) == [kind |-> "Ret", has_value |-> TRUE, value |-> value]
AstBr(label, args) == [kind |-> "Br", label |-> label, args |-> args]
AstBrIf(cond, true_label, true_args, false_label, false_args) ==
  [kind |-> "BrIf", cond |-> cond, true_label |-> true_label, true_args |-> true_args,
   false_label |-> false_label, false_args |-> false_args]

AstBlock(label, params, instructions, terminator) ==
  [label |-> label, params |-> params, instructions |-> instructions,
   terminator |-> terminator]

\* TopLevelItem::Function / TopLevelItem::Import
FunctionDef(name, params, return_type, blocks) ==
  [kind |-> "Function", name |-> name, params |-> params, return_type |-> return_type,
   blocks |-> blocks]
AstImport(name, params, return_type) ==
  [kind |-> "Import", name |-> name, params |-> params, return_type |-> return_type]

\* the types of a list of typed identifiers
TypesOf(params) == [i \in 1..Len(params) |-> params[i].ty]

(***************************************************************************)
(* Lowering (tilt-ir/lowering.rs): context                                 *)
(***************************************************************************)
\* a map with key k set to v
Put(map, k, v) == [x \in DOMAIN map \cup {k} |-> IF x = k THEN v ELSE map[x]]

EmptyMap == [x \in {} |-> 0]

\* LoweringContext::new, with the function being built held beside it
LoweringContext ==
  [block_map |-> EmptyMap, value_map |-> EmptyMap, functions |-> EmptyMap,
   errors |-> <<>>, next_block_id |-> 0, current_function |-> NewFunction("", <<>>, "Void"),
   func |-> NewFunction("", <<>>, "Void")]

\* a step of the lowerer that went through, and one that returned Err(())
Done(s, out) == [ok |-> TRUE, s |-> s, out |-> out]
Failed(s) == [ok |-> FALSE, s |-> s, out |-> 0]

\* ctx.error
error(s, e) == [s EXCEPT !.errors = Append(@, e)]

\* ctx.error(..); return Err(())
Fail(s, e) == Failed(error(s, e))

\* register_function
register_function(s, name, params, return_type) ==
  IF name \in DOMAIN s.functions THEN error(s, "DuplicateDefinition")
  ELSE [s EXCEPT !.functions = Put(@, name, [params |-> params,
                                             return_type |-> return_type])]

\* a register_variable that leaves the name undefined
register_nothing(s, name, value_id, ty) == s

\* register_variable
register_variable(s, name, value_id, ty) ==
  IF name \in DOMAIN s.value_map THEN error(s, "DuplicateDefinition")
  ELSE [s EXCEPT !.value_map = Put(@, name, [id |-> value_id, ty |-> ty])]

\* Function::next_value: the state after it; the id handed out is the old
\* s.func.next_value_id
next_value(s) == [s EXCEPT !.func.next_value_id = @ + 1]

\* lower_value_with_func: out is the (ValueId, Type) pair
lower_value_with_func(s, value, expected_type) ==
  IF value.kind = "Variable"
  THEN IF value.name \in DOMAIN s.value_map
       THEN Done(s, s.value_map[value.name])
       ELSE Fail(s, "UndefinedIdentifier")
  ELSE LET id == s.func.next_value_id
           s1 == [next_value(s) EXCEPT
                    !.func.constants = Put(@, id, ConstEntry(value.value, expected_type))]
       IN Done(s1, [id |-> id, ty |-> expected_type])

\* the values args[Len(acc)+1 ..] lowered in order against the expected types;
\* with check, a variable of another type than expected stops with TypeMismatch
\* as soon as it is met. out is the list of (ValueId, Type) pairs.
RECURSIVE lower_args(_, _, _, _, _)
lower_args(s, args, types, check, acc) ==
  IF Len(acc) = Len(args) THEN Done(s, acc)
  ELSE LET i == Len(acc) + 1
           then(r) ==
             IF ~r.ok THEN r
             ELSE IF check /\ r.out.ty # types[i] THEN Fail(r.s, "TypeMismatch")
             ELSE lower_args(r.s, args, types, check, Append(acc, r.out))
       IN then(lower_value_with_func(s, args[i], types[i]))

IdsOf(pairs) == [i \in 1..Len(pairs) |-> pairs[i].id]

(***************************************************************************)
(* Lowering: instructions                                                  *)
(***************************************************************************)
\* BinaryOperator::from_str / UnaryOperator::from_str; "" when there is none
BinaryFromStr(op_part) ==
  CASE op_part = "add" -> "Add" [] op_part = "sub" -> "Sub" [] op_part = "mul" -> "Mul"
    [] op_part = "div" -> "Div" [] op_part = "rem" -> "Rem" [] op_part = "and" -> "And"
    [] op_part = "or" -> "Or" [] op_part = "xor" -> "Xor" [] op_part = "shl" -> "Shl"
    [] op_part = "shr" -> "Shr" [] op_part = "eq" -> "Eq" [] op_part = "ne" -> "Ne"
    [] op_part = "lt" -> "Lt" [] op_part = "le" -> "Le" [] op_part = "gt" -> "Gt"
    [] op_part = "ge" -> "Ge" [] OTHER -> ""

UnaryFromStr(op_part) ==
  CASE op_part = "neg" -> "Neg" [] op_part = "not" -> "Not" [] OTHER -> ""

\* the type an operation's type_part names; "" when it names none
OperationType(type_part) ==
  CASE type_part = "i32" -> "I32" [] type_part = "i64" -> "I64"
    [] type_part = "f32" -> "F32" [] type_part = "f64" -> "F64"
    [] type_part \in {"ptr", "usize"} -> "Usize" [] OTHER -> ""

\* the type sizeof.<name> names; "" when it names none
SizeOfOperand(name) ==
  CASE name = "i32" -> "I32" [] name = "i64" -> "I64" [] name = "f32" -> "F32"
    [] name = "f64" -> "F64" [] name = "ptr" -> "Usize" [] name = "void" -> "Void"
    [] OTHER -> ""

\* the type <ty>.store stores; "" when it is no store mnemonic
StoreType(type_part) ==
  CASE type_part = "i32" -> "I32" [] type_part = "i64" -> "I64"
    [] type_part = "f32" -> "F32" [] type_part = "f64" -> "F64"
    [] type_part = "usize" -> "Usize" [] OTHER -> ""

\* handle_conversion_operation: (source, target) of <type_part>.to_<x>
ConversionTypes(type_part, op_part) ==
  CASE type_part = "i32" /\ op_part = "to_i64" -> <<"I32", "I64">>
    [] type_part = "i32" /\ op_part = "to_usize" -> <<"I32", "Usize">>
    [] type_part = "i64" /\ op_part = "to_i32" -> <<"I64", "I32">>
    [] type_part = "i64" /\ op_part = "to_usize" -> <<"I64", "Usize">>
    [] type_part = "usize" /\ op_part = "to_i64" -> <<"Usize", "I64">>
    [] type_part = "usize" /\ op_part = "to_i32" -> <<"Usize", "I32">>
    [] OTHER -> <<>>

IsConversion(op_part) ==
  op_part \in {"to_i32", "to_i64", "to_usize", "to_f32", "to_f64", "to_ptr", "to_void"}

\* one operand lowered against ty, then checked to have it
lower_operand(s, value, ty) ==
  LET then(r) ==
        IF ~r.ok THEN r
        ELSE IF r.out.ty # ty THEN Fail(r.s, "TypeMismatch")
        ELSE Done(r.s, r.out.id)
  IN then(lower_value_with_func(s, value, ty))

\* a call with a destination (Expression::Call, or a mnemonic naming a function)
lower_call(s, dest, dest_value_id, name, args) ==
  IF name \notin DOMAIN s.functions THEN Fail(s, "FunctionNotFound")
  ELSE LET sig == s.functions[name]
       IN IF Len(args) # Len(sig.params) THEN Fail(s, "ArgumentMismatch")
          ELSE IF sig.return_type # dest.ty THEN Fail(s, "TypeMismatch")
          ELSE LET then(r) ==
                     IF ~r.ok THEN r
                     ELSE Done(r.s, Call(dest_value_id, name, IdsOf(r.out), sig.return_type))
               IN then(lower_args(s, args, sig.params, TRUE, <<>>))

\* a call without a destination
lower_call_void(s, name, args) ==
  IF name \notin DOMAIN s.functions THEN Fail(s, "FunctionNotFound")
  ELSE LET sig == s.functions[name]
       IN IF sig.return_type # "Void" THEN Fail(s, "TypeMismatch")
          ELSE IF Len(args) # Len(sig.params) THEN Fail(s, "ArgumentMismatch")
          ELSE LET then(r) == IF ~r.ok THEN r ELSE Done(r.s, CallVoid(name, IdsOf(r.out)))
               IN then(lower_args(s, args, sig.params, TRUE, <<>>))

\* handle_conversion_operation
handle_conversion_operation(s, dest, dest_value_id, op, args) ==
  LET types == ConversionTypes(op.type_part, op.op_part)
  IN IF Len(args) # 1 THEN Fail(s, "InvalidOperation")
     ELSE IF types = <<>> THEN Fail(s, "InvalidOperation")
     ELSE IF dest.ty # types[2] THEN Fail(s, "TypeMismatch")
     ELSE LET then(r) ==
                IF ~r.ok THEN r
                ELSE Done(r.s, Convert(dest_value_id, r.out, types[1], types[2]))
          IN then(lower_operand(s, args[1], types[1]))

\* the binary arm of a dotted operation
lower_binary(s, dest_value_id, op_part, ty, args) ==
  LET binary_op == BinaryFromStr(op_part)
      then(r) ==
        IF ~r.ok THEN r
        ELSE IF r.out[1].ty # ty \/ r.out[2].ty # ty THEN Fail(r.s, "TypeMismatch")
        ELSE Done(r.s, BinaryOp(dest_value_id, binary_op, ty, r.out[1].id, r.out[2].id))
  IN IF binary_op = "" THEN Fail(s, "InvalidOperation")
     ELSE then(lower_args(s, args, <<ty, ty>>, FALSE, <<>>))

\* the one-argument arm of a dotted operation: const, extend, trunc, unary
lower_unary(s, dest, dest_value_id, op, ty, args) ==
  LET converted(r, from_ty) ==
        IF ~r.ok THEN r ELSE Done(r.s, Convert(dest_value_id, r.out, from_ty, dest.ty))
      conv(from_ty, to_tys) ==
        IF dest.ty \notin to_tys THEN Fail(s, "TypeMismatch")
        ELSE converted(lower_operand(s, args[1], from_ty), from_ty)
      unary_op == UnaryFromStr(op.op_part)
      then(r) == IF ~r.ok THEN r ELSE Done(r.s, UnaryOp(dest_value_id, unary_op, ty, r.out))
  IN CASE op.op_part = "const" ->
            IF args[1].kind = "Constant"
            THEN Done(s, Const(dest_value_id, args[1].value, ty))
            ELSE Fail(s, "InvalidOperation")
       [] op.op_part = "extend" /\ op.type_part = "i32" -> conv("I32", {"I64", "Usize"})
       [] op.op_part = "extend" /\ op.type_part = "usize" -> conv("Usize", {"I64"})
       [] op.op_part = "trunc" /\ op.type_part = "i64" -> conv("I64", {"I32", "Usize"})
       [] OTHER ->
            IF unary_op = "" THEN Fail(s, "InvalidOperation")
            ELSE then(lower_operand(s, args[1], ty))

\* a dotted operation with a destination: <type_part>.<op_part>
lower_dotted(s, dest, dest_value_id, op, args) ==
  LET ty == OperationType(op.type_part)
      loaded(r) == IF ~r.ok THEN r ELSE Done(r.s, Load(dest_value_id, ty, r.out))
  IN IF IsConversion(op.op_part)
     THEN handle_conversion_operation(s, dest, dest_value_id, op, args)
     ELSE IF ty = "" THEN Fail(s, "InvalidOperation")
     ELSE IF op.op_part = "load"
          THEN IF Len(args) # 1 THEN Fail(s, "InvalidOperation")
               ELSE IF ty # dest.ty THEN Fail(s, "TypeMismatch")
               ELSE loaded(lower_operand(s, args[1], "Usize"))
     ELSE IF ty # dest.ty THEN Fail(s, "TypeMismatch")
     ELSE IF Len(args) = 2 THEN lower_binary(s, dest_value_id, op.op_part, ty, args)
     ELSE IF Len(args) = 1 THEN lower_unary(s, dest, dest_value_id, op, ty, args)
     ELSE Fail(s, "InvalidOperation")

\* Instruction::Assign with an Expression::Operation
lower_operation(s, dest, dest_value_id, op, args) ==
  LET dotted == op.type_part # ""
      is_sizeof == op.type_part = "sizeof"
      is_ptr_add == op.type_part = "usize" /\ op.op_part = "add"
      named == ~dotted /\ op.op_part \notin {"alloc", "free"}
               /\ op.op_part \in DOMAIN s.functions
      added(r) ==
        IF ~r.ok THEN r
        ELSE IF r.out[1].ty # "Usize" \/ r.out[2].ty # "Usize" THEN Fail(r.s, "TypeMismatch")
        ELSE Done(r.s, PtrAdd(dest_value_id, r.out[1].id, r.out[2].id))
      allocated(r) == IF ~r.ok THEN r ELSE Done(r.s, Alloc(dest_value_id, r.out))
  IN IF named THEN lower_call(s, dest, dest_value_id, op.op_part, args)
     ELSE IF is_ptr_add
          THEN IF Len(args) # 2 THEN Fail(s, "InvalidOperation")
               ELSE IF dest.ty # "Usize" THEN Fail(s, "TypeMismatch")
               ELSE added(lower_args(s, args, <<"Usize", "Usize">>, FALSE, <<>>))
     ELSE IF is_sizeof
          THEN IF Len(args) # 0 THEN Fail(s, "InvalidOperation")
               ELSE IF dest.ty # "Usize" THEN Fail(s, "TypeMismatch")
               ELSE IF SizeOfOperand(op.op_part) = "" THEN Fail(s, "InvalidOperation")
               ELSE Done(s, SizeOf(dest_value_id, SizeOfOperand(op.op_part)))
     ELSE IF ~dotted /\ op.op_part = "alloc"
          THEN IF Len(args) # 1 THEN Fail(s, "InvalidOperation")
               ELSE IF dest.ty # "Usize" THEN Fail(s, "TypeMismatch")
               ELSE allocated(lower_operand(s, args[1], "Usize"))
     ELSE IF dotted THEN lower_dotted(s, dest, dest_value_id, op, args)
     ELSE Fail(s, "InvalidOperation")

\* Instruction::ExpressionStatement with an Expression::Operation
lower_void_operation(s, op, args) ==
  IF op.type_part = "" /\ op.op_part \in DOMAIN s.functions
  THEN lower_call_void(s, op.op_part, args)
  ELSE IF op.type_part # "" /\ op.op_part = "store"
       THEN IF Len(args) # 2 THEN Fail(s, "ArgumentMismatch")
            ELSE LET store_type == StoreType(op.type_part)
                     stored(p, v) ==
                       IF ~v.ok THEN v ELSE Done(v.s, Store(p.out, v.out, store_type))
                     addressed(p) ==
                       IF ~p.ok THEN p
                       ELSE IF store_type = "" THEN Fail(p.s, "InvalidOperation")
                       ELSE stored(p, lower_operand(p.s, args[2], store_type))
                 IN addressed(lower_operand(s, args[1], "Usize"))
  ELSE IF op.type_part = "" /\ op.op_part = "free"
       THEN IF Len(args) # 1 THEN Fail(s, "ArgumentMismatch")
            ELSE LET freed(r) == IF ~r.ok THEN r ELSE Done(r.s, Free(r.out))
                 IN freed(lower_operand(s, args[1], "Usize"))
  ELSE Fail(s, "InvalidOperation")

\* lower_instruction
lower_instruction(s, instruction) ==
  IF instruction.kind = "Assign"
  THEN LET dest == instruction.dest
           expr == instruction.expr
           dest_value_id == s.func.next_value_id
           s1 == register_variable(next_value(s), dest.name, dest_value_id, dest.ty)
       IN CASE expr.kind = "Call" -> lower_call(s1, dest, dest_value_id, expr.name, expr.args)
            [] expr.kind = "Operation" ->
                 lower_operation(s1, dest, dest_value_id, expr.op, expr.args)
            [] expr.kind = "Constant" -> Done(s1, Const(dest_value_id, expr.value, dest.ty))
            [] expr.kind = "Phi" -> Fail(s1, "InvalidOperation")
  ELSE LET expr == instruction.expr
       IN CASE expr.kind = "Call" -> lower_call_void(s, expr.name, expr.args)
            [] expr.kind = "Operation" -> lower_void_operation(s, expr.op, expr.args)
            [] OTHER -> Fail(s, "InvalidOperation")

(***************************************************************************)
(* Lowering: terminators, blocks, functions, programs                      *)
(***************************************************************************)
\* the expected type lower_terminator gives every branch argument
BranchArgType == "I32"

\* the arguments of one branch arm: lowered, never compared with the target's
\* parameters
lower_branch_args(s, args) ==
  lower_args(s, args, [i \in 1..Len(args) |-> BranchArgType], FALSE, <<>>)

\* lower_terminator
lower_terminator(s, terminator) ==
  CASE terminator.kind = "Ret" ->
         IF terminator.has_value
         THEN LET returned(r) ==
                    IF ~r.ok THEN r
                    ELSE IF r.out.ty # s.current_function.return_type
                         THEN Fail(r.s, "TypeMismatch")
                    ELSE Done(r.s, Ret(r.out.id))
              IN returned(lower_value_with_func(s, terminator.value,
                                                s.current_function.return_type))
         ELSE IF s.current_function.return_type # "Void" THEN Fail(s, "TypeMismatch")
         ELSE Done(s, RetNone)
    [] terminator.kind = "Br" ->
         IF terminator.label \notin DOMAIN s.block_map THEN Fail(s, "UndefinedBlock")
         ELSE LET branched(r) ==
                    IF ~r.ok THEN r
                    ELSE Done(r.s, Br(s.block_map[terminator.label], IdsOf(r.out)))
              IN branched(lower_branch_args(s, terminator.args))
    [] terminator.kind = "BrIf" ->
         LET false_arm(c, t, f) ==
               IF ~f.ok THEN f
               ELSE Done(f.s, BrIf(c.out.id,
                                   s.block_map[terminator.true_label], IdsOf(t.out),
                                   s.block_map[terminator.false_label], IdsOf(f.out)))
             true_arm(c, t) ==
               IF ~t.ok THEN t
               ELSE false_arm(c, t, lower_branch_args(t.s, terminator.false_args))
             condition(c) ==
               IF ~c.ok THEN c
               ELSE IF c.out.ty \notin {"I32", "I64"} THEN Fail(c.s, "TypeMismatch")
               ELSE IF terminator.true_label \notin DOMAIN s.block_map
                    THEN Fail(c.s, "UndefinedBlock")
               ELSE IF terminator.false_label \notin DOMAIN s.block_map
                    THEN Fail(c.s, "UndefinedBlock")
               ELSE true_arm(c, lower_branch_args(c.s, terminator.true_args))
         IN condition(lower_value_with_func(s, terminator.cond, "I32"))

\* the block parameters params[Len(acc)+1 ..]: each gets the next ValueId and
\* replaces whatever its name stood for. out is the IR parameter list.
RECURSIVE lower_block_params(_, _, _)
lower_block_params(s, params, acc) ==
  IF Len(acc) = Len(params) THEN Done(s, acc)
  ELSE LET param == params[Len(acc) + 1]
           value_id == s.func.next_value_id
           s1 == [next_value(s) EXCEPT
                    !.value_map = Put(@, param.name, [id |-> value_id, ty |-> param.ty])]
       IN lower_block_params(s1, params, Append(acc, Param(value_id, param.ty)))

\* the instructions from position i on; one that fails is left out
RECURSIVE lower_instructions(_, _, _, _)
lower_instructions(s, instructions, i, acc) ==
  IF i > Len(instructions) THEN Done(s, acc)
  ELSE LET then(r) ==
             IF r.ok THEN lower_instructions(r.s, instructions, i + 1, Append(acc, r.out))
             ELSE lower_instructions(r.s, instructions, i + 1, acc)
       IN then(lower_instruction(s, instructions[i]))

\* lower_block
lower_block(s, block) ==
  LET block_id == s.block_map[block.label]
      \* a terminator that fails leaves the placeholder of BasicBlock::new
      terminated(p, i, t) ==
        IF t.ok THEN Done(t.s, BasicBlock(block_id, p.out, i.out, t.out))
        ELSE Done(t.s, BasicBlock(block_id, p.out, i.out, RetNone))
      filled(p, i) == IF i.ok THEN terminated(p, i, lower_terminator(i.s, block.terminator))
                      ELSE i
      opened(p) == IF p.ok THEN filled(p, lower_instructions(p.s, block.instructions, 1, <<>>))
                   ELSE p
  IN opened(lower_block_params(s, block.params, <<>>))

\* lower_function: the parameters from position i on, registered as variables
RECURSIVE register_params(_, _, _)
register_params(s, params, i) ==
  IF i > Len(params) THEN s
  ELSE register_params(register_variable(next_value(s), params[i].name,
                                         s.func.next_value_id, params[i].ty),
                       params, i + 1)

\* lower_function, first pass: a BlockId for every block from position i on
RECURSIVE assign_block_ids(_, _, _)
assign_block_ids(s, blocks, i) ==
  IF i > Len(blocks) THEN s
  ELSE LET block_id == s.next_block_id
           s1 == [s EXCEPT !.next_block_id = @ + 1]
           s2 == IF blocks[i].label \in DOMAIN s1.block_map
                 THEN error(s1, "DuplicateDefinition")
                 ELSE [s1 EXCEPT !.block_map = Put(@, blocks[i].label, block_id)]
       IN assign_block_ids(s2, blocks, i + 1)

\* lower_function, second pass: the blocks from position i on
RECURSIVE lower_blocks(_, _, _, _)
lower_blocks(s, blocks, i, acc) ==
  IF i > Len(blocks) THEN Done(s, acc)
  ELSE LET then(r) ==
             IF r.ok THEN lower_blocks(r.s, blocks, i + 1, Append(acc, r.out))
             ELSE Failed(r.s)
       IN then(lower_block(s, blocks[i]))

\* lower_function: ok when no error has been recorded so far
lower_function(s, func) ==
  LET ir_func == NewFunction(func.name, TypesOf(func.params), func.return_type)
      s0 == [s EXCEPT !.block_map = EmptyMap, !.value_map = EmptyMap,
                      !.current_function = ir_func, !.func = ir_func]
      finished(s4) == IF s4.errors = <<>> THEN Done(s4, s4.func) ELSE Failed(s4)
      lowered(b) == finished([b.s EXCEPT !.func.blocks = b.out])
      second_pass(s2) ==
        lowered(lower_blocks(IF Len(func.blocks) > 0
                             THEN [s2 EXCEPT !.func.entry_block =
                                               s2.block_map[func.blocks[1].label]]
                             ELSE s2,
                             func.blocks, 1, <<>>))
  IN second_pass(assign_block_ids(register_params(s0, func.params, 1), func.blocks, 1))

\* lower_program, first pass: every import and function signature
RECURSIVE register_items(_, _, _)
register_items(s, items, i) ==
  IF i > Len(items) THEN s
  ELSE register_items(register_function(s, items[i].name, TypesOf(items[i].params),
                                        items[i].return_type),
                      items, i + 1)

\* lower_import
lower_import(import) == ImportDecl(import.name, TypesOf(import.params), import.return_type)

\* lower_program, second pass: the items from position i on
RECURSIVE lower_items(_, _, _, _, _)
lower_items(s, items, i, ir_imports, ir_functions) ==
  IF i > Len(items)
  THEN Done(s, Program(ir_imports, ir_functions))
  ELSE IF items[i].kind = "Import"
       THEN lower_items(s, items, i + 1, Append(ir_imports, lower_import(items[i])),
                        ir_functions)
       ELSE LET then(r) ==
                  IF r.ok
                  THEN lower_items(r.s, items, i + 1, ir_imports, Append(ir_functions, r.out))
                  ELSE lower_items(r.s, items, i + 1, ir_imports, ir_functions)
            IN then(lower_function(s, items[i]))

\* lower_program: Ok(program) or Err(errors)
lower_program(ast) ==
  LET result_of(r) ==
        IF r.s.errors = <<>> THEN [tag |-> "ok", program |-> r.out]
        ELSE [tag |-> "err", errors |-> r.s.errors]
  IN result_of(lower_items(register_items(LoweringContext, ast.items, 1), ast.items, 1,
                           <<>>, <<>>))

(***************************************************************************)
(* JIT (tilt-codegen-cranelift): translation                               *)
(***************************************************************************)
\* translate_type: the Cranelift type of an IR type (64-bit target)
translate_type(ty) ==
  CASE ty = "I32" -> "i32" [] ty \in {"I64", "Usize"} -> "i64"
    [] ty = "F32" -> "f32" [] ty = "F64" -> "f64" [] ty = "Void" -> "i8"

ClTypes(tys) == [i \in 1..Len(tys) |-> translate_type(tys[i])]
ClInts == {"i32", "i64"}

\* the signature JIT::compile declares for an import or a function
Signature(params, return_type) ==
  [params |-> ClTypes(params),
   returns |-> IF return_type # "Void" THEN <<translate_type(return_type)>> ELSE <<>>]

\* JIT::compile, first pass: function_ids, imports first, with their signatures
function_ids(prog) ==
  LET imported == {prog.imports[i].name : i \in 1..Len(prog.imports)}
      defined == {prog.functions[i].name : i \in 1..Len(prog.functions)}
      decl(seq, name) == LET IsIt(d) == d.name = name IN seq[FirstIndex(seq, IsIt)]
  IN [name \in imported \cup defined |->
        IF name \in defined
        THEN Signature(decl(prog.functions, name).params,
                       decl(prog.functions, name).return_type)
        ELSE Signature(decl(prog.imports, name).params,
                       decl(prog.imports, name).return_type)]

\* a translation step that went through with value_map vt, and one that failed:
\* translate_* returned Err, or define_function rejected the function built
Translated(vt) == [ok |-> TRUE, vt |-> vt]
Rejected == [ok |-> FALSE, vt |-> EmptyMap]

\* get_value_or_constant: the Cranelift type of the value, "" when not found
get_value_or_constant(vt, func, id) ==
  IF id \in DOMAIN vt THEN vt[id]
  ELSE IF id \in DOMAIN func.constants THEN translate_type(func.constants[id].ty)
  ELSE ""

ClArgs(vt, func, ids) == [i \in 1..Len(ids) |-> get_value_or_constant(vt, func, ids[i])]
AllFound(types) == \A i \in 1..Len(types) : types[i] # ""

\* does the function's entry block lack the function parameters (translate, step 2)
AddsParams(func) ==
  LET entry == func.blocks[FindBlock(func, func.entry_block)]
  IN Len(entry.params) # Len(func.params)

\* the ValueIds and the Cranelift types of the parameters of a Cranelift block
BlockParamIds(func, block) ==
  [i \in 1..Len(block.params) |-> block.params[i].id]
  \o (IF block.id = func.entry_block /\ AddsParams(func)
      THEN [i \in 1..Len(func.params) |-> i - 1] ELSE <<>>)
BlockParamTypes(func, block) ==
  [i \in 1..Len(block.params) |-> translate_type(block.params[i].ty)]
  \o (IF block.id = func.entry_block /\ AddsParams(func)
      THEN ClTypes(func.params) ELSE <<>>)

\* a jump to target with args: the target exists, every argument is found, and
\* the arguments fit the parameters of the Cranelift block
JumpFits(vt, func, target, args) ==
  /\ FindBlock(func, target) # 0
  /\ AllFound(ClArgs(vt, func, args))
  /\ ClArgs(vt, func, args) = BlockParamTypes(func, func.blocks[FindBlock(func, target)])

\* translate_instruction
translate_instruction(vt, func, ids, instr) ==
  LET ty_of(id) == get_value_or_constant(vt, func, id)
      defines(cond, ty) == IF cond THEN Translated(Put(vt, instr.dest, ty)) ELSE Rejected
      keeps(cond) == IF cond THEN Translated(vt) ELSE Rejected
      same_ints(a, b) == ty_of(a) = ty_of(b) /\ ty_of(a) \in ClInts
  IN CASE instr.kind \in {"Call", "CallVoid"} ->
            IF instr.function \notin DOMAIN ids
               \/ ClArgs(vt, func, instr.args) # ids[instr.function].params
            THEN Rejected
            ELSE IF instr.kind = "Call" /\ ids[instr.function].returns # <<>>
                 THEN Translated(Put(vt, instr.dest, ids[instr.function].returns[1]))
                 ELSE Translated(vt)
       [] instr.kind = "BinaryOp" ->
            (CASE instr.op \in {"Add", "Sub", "Mul"} ->
                    defines(same_ints(instr.lhs, instr.rhs), ty_of(instr.lhs))
               [] instr.op = "Div" ->
                    defines(instr.ty \in {"I32", "I64"} /\ same_ints(instr.lhs, instr.rhs),
                            ty_of(instr.lhs))
               [] instr.op \in {"Eq", "Ne", "Lt", "Le", "Gt", "Ge"} ->
                    defines(same_ints(instr.lhs, instr.rhs), "i32")
               [] OTHER -> Rejected)
       [] instr.kind = "UnaryOp" ->
            defines(ty_of(instr.operand) \in ClInts, ty_of(instr.operand))
       [] instr.kind = "Const" ->
            defines(instr.ty # "Void", translate_type(instr.ty))
       [] instr.kind = "Store" ->
            keeps(ty_of(instr.address) = "i64" /\ ty_of(instr.value) # "")
       [] instr.kind = "Load" ->
            defines(ty_of(instr.address) = "i64", translate_type(instr.ty))
       [] instr.kind = "PtrAdd" -> defines(same_ints(instr.ptr, instr.offset), ty_of(instr.ptr))
       [] instr.kind = "SizeOf" -> defines(TRUE, "i64")
       [] instr.kind = "Alloc" ->
            IF "alloc" \in DOMAIN ids /\ ty_of(instr.size) # ""
            THEN defines(ids["alloc"].params = <<ty_of(instr.size)>>
                         /\ ids["alloc"].returns # <<>>, ids["alloc"].returns[1])
            ELSE Rejected
       [] instr.kind = "Free" ->
            IF "free" \in DOMAIN ids /\ ty_of(instr.ptr) # ""
            THEN keeps(ids["free"].params = <<ty_of(instr.ptr)>>)
            ELSE Rejected
       [] instr.kind = "Convert" ->
            (CASE instr.from_ty = "I32" /\ instr.to_ty \in {"I64", "Usize"} ->
                    defines(ty_of(instr.src) = "i32", "i64")
               [] instr.from_ty \in {"I64", "Usize"} /\ instr.to_ty = "I32" ->
                    defines(ty_of(instr.src) = "i64", "i32")
               [] instr.from_ty = "Usize" /\ instr.to_ty = "I64" ->
                    defines(ty_of(instr.src) # "", ty_of(instr.src))
               [] instr.from_ty = "I64" /\ instr.to_ty = "Usize" ->
                    defines(ty_of(instr.src) # "", ty_of(instr.src))
               [] OTHER -> Rejected)

\* translate_terminator
translate_terminator(vt, func, ids, term) ==
  CASE term.kind = "Ret" ->
         IF term.has_value
         THEN <<get_value_or_constant(vt, func, term.value)>> = ids[func.name].returns
         ELSE ids[func.name].returns = <<>>
    [] term.kind = "Br" -> JumpFits(vt, func, term.target, term.args)
    [] term.kind = "BrIf" ->
         /\ get_value_or_constant(vt, func, term.cond) \in ClInts
         /\ JumpFits(vt, func, term.true_target, term.true_args)
         /\ JumpFits(vt, func, term.false_target, term.false_args)

\* Translator::translate, step 3: the instructions of one block from position i
RECURSIVE translate_instructions(_, _, _, _, _)
translate_instructions(vt, func, ids, instructions, i) ==
  IF i > Len(instructions) THEN Translated(vt)
  ELSE LET then(r) ==
             IF r.ok THEN translate_instructions(r.vt, func, ids, instructions, i + 1)
             ELSE r
       IN then(translate_instruction(vt, func, ids, instructions[i]))

\* Translator::translate, step 3: the blocks from position i on, in list order
RECURSIVE translate_blocks(_, _, _, _)
translate_blocks(vt, func, ids, i) ==
  IF i > Len(func.blocks) THEN TRUE
  ELSE LET then(r) ==
             /\ r.ok
             /\ translate_terminator(r.vt, func, ids, func.blocks[i].terminator)
             /\ translate_blocks(r.vt, func, ids, i + 1)
       IN then(translate_instructions(vt, func, ids, func.blocks[i].instructions, 1))

\* Translator::translate, steps 1 and 2: value_map holds every block parameter,
\* then the function parameters if the entry block lacks them
InitialValueMap(func) ==
  LET block_params == UNION {{func.blocks[b].params[i] : i \in 1..Len(func.blocks[b].params)}
                             : b \in 1..Len(func.blocks)}
      added == IF AddsParams(func) THEN {i - 1 : i \in 1..Len(func.params)} ELSE {}
      ty_of(id) == (CHOOSE p \in block_params : p.id = id).ty
  IN [id \in {p.id : p \in block_params} \cup added |->
        IF id \in added THEN translate_type(func.params[id + 1]) ELSE translate_type(ty_of(id))]

\* translate_function: does the function translate, and does the function built
\* pass define_function
translate_function(func, ids) ==
  /\ FindBlock(func, func.entry_block) # 0
  /\ BlockParamTypes(func, func.blocks[FindBlock(func, func.entry_block)])
       = ids[func.name].params
  /\ translate_blocks(InitialValueMap(func), func, ids, 1)

\* JIT::compile: Ok(()) or Err
compile(prog) ==
  \A i \in 1..Len(prog.functions) : translate_function(prog.functions[i], function_ids(prog))

(***************************************************************************)
(* JIT: the compiled code                                                  *)
(***************************************************************************)
\* the Type whose range a Cranelift integer type has as a signed word
ClName(clty) == IF clty = "i32" THEN "I32" ELSE "I64"

\* the word of type clty that x is modulo 2^N, read as signed
Cl(clty, x) == RV(clty, Wrap(ClName(clty), x))

\* a RuntimeValue handed to compiled code, and the word compiled code returns
\* read as the function's return type
ToNative(rv) == Cl(translate_type(rv.ty), rv.v)
FromNative(ty, word) == IF ty = "Void" THEN Void ELSE RV(ty, Wrap(ty, word.v))

\* compiled code that stops the process: a trap instruction, a stack that ran
\* out, an access outside the memory of the process
Trap == [tag |-> "trap"]

NoJit == [status |-> "none", stack |-> <<>>, result |-> NoResult]
Running(stack) == [status |-> "running", stack |-> stack, result |-> NoResult]
Finished(outcome) == [status |-> "done", stack |-> <<>>, result |-> outcome]

\* the ValueIds an instruction or terminator reads
Operands(x) ==
  CASE x.kind \in {"Call", "CallVoid"} -> x.args
    [] x.kind = "BinaryOp" -> <<x.lhs, x.rhs>>
    [] x.kind = "UnaryOp" -> <<x.operand>>
    [] x.kind = "Load" -> <<x.address>>
    [] x.kind = "Store" -> <<x.address, x.value>>
    [] x.kind = "PtrAdd" -> <<x.ptr, x.offset>>
    [] x.kind = "Alloc" -> <<x.size>>
    [] x.kind = "Free" -> <<x.ptr>>
    [] x.kind = "Convert" -> <<x.src>>
    [] x.kind = "Ret" -> IF x.has_value THEN <<x.value>> ELSE <<>>
    [] x.kind = "Br" -> x.args
    [] x.kind = "BrIf" -> <<x.cond>> \o x.true_args \o x.false_args
    [] OTHER -> <<>>

\* the word a ValueId stands for: the value defined, or the iconst that
\* get_value_or_constant emits for an entry of the constants table
Word(func, values, id) ==
  IF id \in DOMAIN values THEN values[id]
  ELSE Cl(translate_type(func.constants[id].ty), func.constants[id].value)
Words(func, values, ids) == [i \in 1..Len(ids) |-> Word(func, values, ids[i])]
AllDefined(func, values, ids) ==
  \A i \in 1..Len(ids) : ids[i] \in DOMAIN values \cup DOMAIN func.constants

\* the frame of compiled code entering block with its parameters bound to words
Entered(func, frame, block, words) ==
  LET ids == BlockParamIds(func, block)
      bound == {ids[i] : i \in 1..Len(ids)}
      last(id) == CHOOSE i \in 1..Len(ids) : ids[i] = id /\ \A j \in 1..Len(ids) :
                                                                ids[j] = id => j <= i
  IN [frame EXCEPT
        !.current_block = block.id,
        !.instruction_pointer = 0,
        !.values = [x \in DOMAIN frame.values \cup bound |->
                      IF x \in bound THEN words[last(x)] ELSE frame.values[x]]]

\* a call of the compiled function name
NativeCall(prog, name, words) ==
  LET func == prog.functions[FindFunction(prog, name)]
  IN Entered(func, StackFrame(name, func.entry_block),
             func.blocks[FindBlock(func, func.entry_block)], words)

\* iadd, isub, imul, sdiv, icmp + uextend
NativeBinary(op, l, r) ==
  LET flag(b) == Ok(Cl("i32", IF b THEN 1 ELSE 0))
  IN CASE op = "Add" -> Ok(Cl(l.ty, l.v + r.v))
       [] op = "Sub" -> Ok(Cl(l.ty, l.v - r.v))
       [] op = "Mul" -> Ok(RV(l.ty, WrappingMul(ClName(l.ty), l.v, r.v)))
       [] op = "Div" ->
            IF r.v = 0 \/ (l.v = MinInt(ClName(l.ty)) /\ r.v = 0 - 1) THEN Trap
            ELSE Ok(RV(l.ty, TruncDiv(l.v, r.v)))
       [] op = "Eq" -> flag(l.v = r.v)
       [] op = "Ne" -> flag(l.v # r.v)
       [] op = "Lt" -> flag(l.v < r.v)
       [] op = "Le" -> flag(l.v <= r.v)
       [] op = "Gt" -> flag(l.v > r.v)
       [] op = "Ge" -> flag(l.v >= r.v)

\* the code translate_instruction emits for instr, run on the top frame
NativeInstruction(prog, stack, func, frame, instr) ==
  LET n == Len(stack)
      word(id) == Word(func, frame.values, id)
      sets(w) == Running([stack EXCEPT ![n] =
                   [frame EXCEPT !.values = set_value(@, instr.dest, w),
                                 !.instruction_pointer = @ + 1]])
      computed(r) == IF r.tag = "ok" THEN sets(r.value) ELSE Finished(Trap)
  IN CASE instr.kind \in {"Call", "CallVoid"} ->
            IF n >= NativeStackDepth THEN Finished(Trap)
            ELSE Running(Append(stack, NativeCall(prog, instr.function,
                                                  Words(func, frame.values, instr.args))))
       [] instr.kind = "BinaryOp" ->
            computed(NativeBinary(instr.op, word(instr.lhs), word(instr.rhs)))
       [] instr.kind = "UnaryOp" ->
            IF instr.op = "Neg" THEN sets(Cl(word(instr.operand).ty, 0 - word(instr.operand).v))
            ELSE sets(Cl(word(instr.operand).ty, 0 - word(instr.operand).v - 1))
       [] instr.kind = "Const" -> sets(Cl(translate_type(instr.ty), instr.value))
       [] instr.kind = "PtrAdd" ->
            sets(Cl(word(instr.ptr).ty, word(instr.ptr).v + word(instr.offset).v))
       [] instr.kind = "SizeOf" -> sets(Cl("i64", SizeOfType(instr.ty)))
       [] instr.kind = "Convert" ->
            sets(Cl(translate_type(instr.to_ty), word(instr.src).v))
       \* a load or store at an address the guest made up
       [] OTHER -> Finished(Trap)

\* the code translate_terminator emits for term, run on the top frame
NativeTerminator(prog, stack, func, frame, term) ==
  LET n == Len(stack)
      word(id) == Word(func, frame.values, id)
      jump(target, args) ==
        Running([stack EXCEPT ![n] =
                   Entered(func, frame, func.blocks[FindBlock(func, target)],
                           Words(func, frame.values, args))])
      resumed(caller, instr) ==
        [caller EXCEPT
           !.values = IF instr.kind = "Call" /\ term.has_value
                      THEN set_value(@, instr.dest, word(term.value)) ELSE @,
           !.instruction_pointer = @ + 1]
      caller_instr(caller) ==
        LET cf == prog.functions[FindFunction(prog, caller.function_name)]
        IN cf.blocks[FindBlock(cf, caller.current_block)]
             .instructions[caller.instruction_pointer + 1]
  IN CASE term.kind = "Ret" ->
            IF n = 1
            THEN Finished(Ok(IF term.has_value
                             THEN FromNative(func.return_type, word(term.value))
                             ELSE Void))
            ELSE Running([SubSeq(stack, 1, n - 1) EXCEPT
                            ![n - 1] = resumed(@, caller_instr(@))])
       [] term.kind = "Br" -> jump(term.target, term.args)
       [] term.kind = "BrIf" ->
            IF word(term.cond).v # 0 THEN jump(term.true_target, term.true_args)
            ELSE jump(term.false_target, term.false_args)

\* one instruction or terminator of the compiled code
NativeStep(prog, stack) ==
  LET frame == stack[Len(stack)]
      func == prog.functions[FindFunction(prog, frame.function_name)]
      block == func.blocks[FindBlock(func, frame.current_block)]
      at_end == frame.instruction_pointer >= Len(block.instructions)
      x == IF at_end THEN block.terminator
           ELSE block.instructions[frame.instruction_pointer + 1]
  IN IF ~AllDefined(func, frame.values, Operands(x)) THEN Finished(Trap)
     ELSE IF at_end THEN NativeTerminator(prog, stack, func, frame, x)
     ELSE NativeInstruction(prog, stack, func, frame, x)

(***************************************************************************)
(* State                                                                   *)
(***************************************************************************)
VARIABLES
  source,           \* the name of the program at hand
  program,          \* VM.program: the IR program the VM was built with
  errors,           \* the SemanticErrors of a lowering that failed
  host_abi,         \* VM.host_abi: "null", "console" or "memory"
  overflow_checks,  \* build profile: are integer overflow checks compiled in
  max_stack_depth,  \* VM.max_stack_depth
  call_stack,       \* VM.call_stack
  memory,           \* MemoryHostABI.memory
  next_addr,        \* MemoryHostABI.next_addr
  status,           \* "source", "rejected", "lowered", then the VM's: "idle",
                    \* "running", "unwinding", "returned", "panicked"
  result,           \* the VMResult of the outermost call_function, once known
  request,          \* name and args of the outermost call_function
  calls,            \* outermost calls made so far
  jit               \* the JIT run of the same request: status, native stack, outcome

vars == <<source, program, errors, host_abi, overflow_checks, max_stack_depth,
          call_stack, memory, next_addr, status, result, request, calls, jit>>

\* what is fixed once the VM exists
built == <<source, program, errors, host_abi, overflow_checks>>

\* the state of the VM
vm == <<max_stack_depth, call_stack, memory, next_addr, status, result, request, calls>>

NoRequest == [name |-> "", args |-> <<>>]

Top == call_stack[Len(call_stack)]
TopFunction == program.functions[FindFunction(program, Top.function_name)]
TopBlockIndex == FindBlock(TopFunction, Top.current_block)
TopBlock == TopFunction.blocks[TopBlockIndex]
AtTerminator == Top.instruction_pointer >= Len(TopBlock.instructions)
CurrentInstruction == TopBlock.instructions[Top.instruction_pointer + 1]

\* the VM is between two calls of the embedder, and no JIT run is under way
Quiescent == status \in {"idle", "returned"} /\ jit.status # "running"

\* the stack with its top frame replaced
WithTop(frame) == [call_stack EXCEPT ![Len(call_stack)] = frame]

\* an error leaves execute_function: the call_function invocations return it
Raise(e) ==
  /\ status' = "unwinding"
  /\ result' = Err(e)
  /\ UNCHANGED <<call_stack, memory, next_addr>>


(***************************************************************************)
(* Source programs                                                         *)
(***************************************************************************)
TI(name, ty) == TypedIdentifier(name, ty)
V(name) == Variable(name)

\* the Type a type mnemonic names
TypeNamed(t) == CASE t = "i32" -> "I32" [] t = "i64" -> "I64" [] t = "usize" -> "Usize"

\* one function `main`, one block `entry`
MainOnly(params, return_type, instructions, terminator) ==
  [items |-> <<FunctionDef("main", params, return_type,
                           <<AstBlock("entry", <<>>, instructions, terminator)>>)>>]

\* fn main(a:T, b:T) -> T { entry: r:T = T.op(a, b)  ret r }
BinSource(t, op) ==
  LET T == TypeNamed(t)
  IN MainOnly(<<TI("a", T), TI("b", T)>>, T,
              <<Assign(TI("r", T), OperationExpr(Op(t, op), <<V("a"), V("b")>>))>>,
              AstRet(V("r")))

\* fn main(a:T) -> T { entry: r:T = T.op(a)  ret r }
UnSource(t, op) ==
  LET T == TypeNamed(t)
  IN MainOnly(<<TI("a", T)>>, T,
              <<Assign(TI("r", T), OperationExpr(Op(t, op), <<V("a")>>))>>,
              AstRet(V("r")))

\* fn main(a:T) -> T { entry: r:T = T.op(a, 3)  ret r }
LitSource(t, op) ==
  LET T == TypeNamed(t)
  IN MainOnly(<<TI("a", T)>>, T,
              <<Assign(TI("r", T), OperationExpr(Op(t, op), <<V("a"), Constant(3)>>))>>,
              AstRet(V("r")))

\* fn main() -> T { entry: r:T = T.op(5, 3)  ret r }
ConstSource(t, op) ==
  LET T == TypeNamed(t)
  IN MainOnly(<<>>, T,
              <<Assign(TI("r", T), OperationExpr(Op(t, op), <<Constant(5), Constant(3)>>))>>,
              AstRet(V("r")))

\* fn main(a:i32, b:i32) -> i32 {
\*   entry: c:i32 = i32.lt(a, b)  br_if c, done(b), done(a)
\*   done(m:i32): ret m }
MaxSource ==
  [items |-> <<FunctionDef("main", <<TI("a", "I32"), TI("b", "I32")>>, "I32",
     <<AstBlock("entry", <<>>,
                <<Assign(TI("c", "I32"), OperationExpr(Op("i32", "lt"), <<V("a"), V("b")>>))>>,
                AstBrIf(V("c"), "done", <<V("b")>>, "done", <<V("a")>>)),
       AstBlock("done", <<TI("m", "I32")>>, <<>>, AstRet(V("m")))>>)>>]

\* fn main(n:i32) -> i32 {
\*   entry: br loop(0, 0)
\*   loop(i:i32, acc:i32): c:i32 = i32.lt(i, n)  br_if c, body, exit
\*   body: acc2:i32 = i32.add(acc, i)  i2:i32 = i32.add(i, 1)  br loop(i2, acc2)
\*   exit: ret acc }
SumSource ==
  [items |-> <<FunctionDef("main", <<TI("n", "I32")>>, "I32",
     <<AstBlock("entry", <<>>, <<>>, AstBr("loop", <<Constant(0), Constant(0)>>)),
       AstBlock("loop", <<TI("i", "I32"), TI("acc", "I32")>>,
                <<Assign(TI("c", "I32"), OperationExpr(Op("i32", "lt"), <<V("i"), V("n")>>))>>,
                AstBrIf(V("c"), "body", <<>>, "exit", <<>>)),
       AstBlock("body", <<>>,
                <<Assign(TI("acc2", "I32"),
                         OperationExpr(Op("i32", "add"), <<V("acc"), V("i")>>)),
                  Assign(TI("i2", "I32"),
                         OperationExpr(Op("i32", "add"), <<V("i"), Constant(1)>>))>>,
                AstBr("loop", <<V("i2"), V("acc2")>>)),
       AstBlock("exit", <<>>, <<>>, AstRet(V("acc")))>>)>>]

\* fn main(n:i32) -> i32 {
\*   entry: br loop(0, 0)
\*   loop(i:i32, acc:i32): c:i32 = i32.lt(i, n)  i2:i32 = i32.add(i, 1)
\*                         acc2:i32 = i32.add(acc, i)  br_if c, loop(i2, acc2), exit
\*   exit: ret acc }
LoopSource ==
  [items |-> <<FunctionDef("main", <<TI("n", "I32")>>, "I32",
     <<AstBlock("entry", <<>>, <<>>, AstBr("loop", <<Constant(0), Constant(0)>>)),
       AstBlock("loop", <<TI("i", "I32"), TI("acc", "I32")>>,
                <<Assign(TI("c", "I32"), OperationExpr(Op("i32", "lt"), <<V("i"), V("n")>>)),
                  Assign(TI("i2", "I32"),
                         OperationExpr(Op("i32", "add"), <<V("i"), Constant(1)>>)),
                  Assign(TI("acc2", "I32"),
                         OperationExpr(Op("i32", "add"), <<V("acc"), V("i")>>))>>,
                AstBrIf(V("c"), "loop", <<V("i2"), V("acc2")>>, "exit", <<>>)),
       AstBlock("exit", <<>>, <<>>, AstRet(V("acc")))>>)>>]

\* fn main() -> i32 { entry: r:i32 = call main()  ret r }
SpinSource ==
  MainOnly(<<>>, "I32", <<Assign(TI("r", "I32"), CallExpr("main", <<>>))>>, AstRet(V("r")))

\* fn helper(x:i32) -> i32 { entry: y:i32 = i32.add(x, x)  ret y }
\* fn main(a:i32) -> i32 { entry: y:i32 = i32.const(1)  r:i32 = call helper(a)
\*                                s:i32 = i32.add(r, y)  ret s }
CallSource ==
  [items |-> <<FunctionDef("helper", <<TI("x", "I32")>>, "I32",
     <<AstBlock("entry", <<>>,
                <<Assign(TI("y", "I32"), OperationExpr(Op("i32", "add"), <<V("x"), V("x")>>))>>,
                AstRet(V("y")))>>),
    FunctionDef("main", <<TI("a", "I32")>>, "I32",
     <<AstBlock("entry", <<>>,
                <<Assign(TI("y", "I32"), OperationExpr(Op("i32", "const"), <<Constant(1)>>)),
                  Assign(TI("r", "I32"), CallExpr("helper", <<V("a")>>)),
                  Assign(TI("s", "I32"), OperationExpr(Op("i32", "add"), <<V("r"), V("y")>>))>>,
                AstRet(V("s")))>>)>>]

\* branches whose arguments do not fit the parameters of the target block
\*   "type":  fn main(a:i64) -> i32 { entry: br next(a)     next(x:i32): ret x }
\*   "none":  fn main(a:i32) -> i32 { entry: br next        next(x:i32): ret x }
\*   "many":  fn main(a:i32) -> i32 { entry: br next(a, a)  next(x:i32): ret x }
\*   "few":   fn main(a:i32) -> i32 { entry: br next(a)     next(x:i32, y:i32): ret x }
\*   "const": fn main(a:i64) -> i64 { entry: br next(5)     next(x:i64): ret x }
BrSource(variant) ==
  LET A == IF variant \in {"type", "const"} THEN "I64" ELSE "I32"
      R == IF variant = "const" THEN "I64" ELSE "I32"
      args == CASE variant = "type" -> <<V("a")>>
                [] variant = "none" -> <<>>
                [] variant = "many" -> <<V("a"), V("a")>>
                [] variant = "few" -> <<V("a")>>
                [] variant = "const" -> <<Constant(5)>>
      params == IF variant = "few" THEN <<TI("x", R), TI("y", R)>> ELSE <<TI("x", R)>>
  IN [items |-> <<FunctionDef("main", <<TI("a", A)>>, R,
       <<AstBlock("entry", <<>>, <<>>, AstBr("next", args)),
         AstBlock("next", params, <<>>, AstRet(V("x")))>>)>>]

\* fn main(c:i32, a:i32) -> i32 {
\*   entry: br_if c, yes, no(a, a)
\*   yes(x:i32): ret x
\*   no(y:i32): ret y }
BrIfSource ==
  [items |-> <<FunctionDef("main", <<TI("c", "I32"), TI("a", "I32")>>, "I32",
     <<AstBlock("entry", <<>>, <<>>,
                AstBrIf(V("c"), "yes", <<>>, "no", <<V("a"), V("a")>>)),
       AstBlock("yes", <<TI("x", "I32")>>, <<>>, AstRet(V("x"))),
       AstBlock("no", <<TI("y", "I32")>>, <<>>, AstRet(V("y")))>>)>>]

\* import print_i32(x:T) -> void
\* fn main(a:T) -> void { entry: call print_i32(a)  ret }
PrintSource(t) ==
  LET T == TypeNamed(t)
  IN [items |-> <<AstImport("print_i32", <<TI("x", T)>>, "Void"),
                  FunctionDef("main", <<TI("a", T)>>, "Void",
                    <<AstBlock("entry", <<>>,
                               <<ExpressionStatement(CallExpr("print_i32", <<V("a")>>))>>,
                               AstRetVoid)>>)>>]

\* import read_i32() -> i32
\* fn main() -> i32 { entry: r:i32 = call read_i32()  ret r }
ReadSource ==
  [items |-> <<AstImport("read_i32", <<>>, "I32"),
               FunctionDef("main", <<>>, "I32",
                 <<AstBlock("entry", <<>>,
                            <<Assign(TI("r", "I32"), CallExpr("read_i32", <<>>))>>,
                            AstRet(V("r")))>>)>>]

\* the mnemonic of sizeof for a type
SizeOfName(t) == IF t = "usize" THEN "ptr" ELSE t

\* fn main(v:T, w:T) -> T {
\*   entry: n:usize = sizeof.T()  p:usize = alloc(n)  q:usize = alloc(n)
\*          T.store(p, v)  T.store(q, w)  r:T = T.load(p)  free(q)  free(p)  ret r }
RoundTripSource(t) ==
  LET T == TypeNamed(t)
  IN MainOnly(<<TI("v", T), TI("w", T)>>, T,
       <<Assign(TI("n", "Usize"), OperationExpr(Op("sizeof", SizeOfName(t)), <<>>)),
         Assign(TI("p", "Usize"), OperationExpr(Op("", "alloc"), <<V("n")>>)),
         Assign(TI("q", "Usize"), OperationExpr(Op("", "alloc"), <<V("n")>>)),
         ExpressionStatement(OperationExpr(Op(t, "store"), <<V("p"), V("v")>>)),
         ExpressionStatement(OperationExpr(Op(t, "store"), <<V("q"), V("w")>>)),
         Assign(TI("r", T), OperationExpr(Op(t, "load"), <<V("p")>>)),
         ExpressionStatement(OperationExpr(Op("", "free"), <<V("q")>>)),
         ExpressionStatement(OperationExpr(Op("", "free"), <<V("p")>>))>>,
       AstRet(V("r")))

\* fn main(n:usize, a:usize) -> void { entry: p:usize = alloc(n)  free(a)  free(a)  ret }
FreeSource ==
  MainOnly(<<TI("n", "Usize"), TI("a", "Usize")>>, "Void",
    <<Assign(TI("p", "Usize"), OperationExpr(Op("", "alloc"), <<V("n")>>)),
      ExpressionStatement(OperationExpr(Op("", "free"), <<V("a")>>)),
      ExpressionStatement(OperationExpr(Op("", "free"), <<V("a")>>))>>,
    AstRetVoid)

\* fn main(d:usize, v:i32) -> i32 {
\*   entry: p:usize = alloc(4)  q:usize = usize.add(p, d)  i32.store(q, v)
\*          r:i32 = i32.load(q)  free(q)  ret r }
OffsetSource ==
  MainOnly(<<TI("d", "Usize"), TI("v", "I32")>>, "I32",
    <<Assign(TI("p", "Usize"), OperationExpr(Op("", "alloc"), <<Constant(4)>>)),
      Assign(TI("q", "Usize"), OperationExpr(Op("usize", "add"), <<V("p"), V("d")>>)),
      ExpressionStatement(OperationExpr(Op("i32", "store"), <<V("q"), V("v")>>)),
      Assign(TI("r", "I32"), OperationExpr(Op("i32", "load"), <<V("q")>>)),
      ExpressionStatement(OperationExpr(Op("", "free"), <<V("q")>>))>>,
    AstRet(V("r")))

\* a program function that bears the name of a host function
\* fn alloc(n:usize) -> usize { entry: ret n }
\* fn main(n:usize) -> usize { entry: p:usize = call alloc(n)  ret p }
ShadowSource ==
  [items |-> <<FunctionDef("alloc", <<TI("n", "Usize")>>, "Usize",
                 <<AstBlock("entry", <<>>, <<>>, AstRet(V("n")))>>),
               FunctionDef("main", <<TI("n", "Usize")>>, "Usize",
                 <<AstBlock("entry", <<>>,
                            <<Assign(TI("p", "Usize"), CallExpr("alloc", <<V("n")>>))>>,
                            AstRet(V("p")))>>)>>]

\* fn other() -> void { entry: ret }
OtherFunction == FunctionDef("other", <<>>, "Void", <<AstBlock("entry", <<>>, <<>>, AstRetVoid)>>)

\* programs in which one name is defined twice
\*   "function":     fn other() twice
\*   "import":       import other() -> void  and  fn other()
\*   "label":        fn main() -> void { entry: ret  entry: ret }
\*   "dest":         fn main(a:i32) -> i32 { entry: r:i32 = i32.add(a, a)
\*                                                  r:i32 = i32.add(a, a)  ret r }
\*   "param":        fn main(a:i32) -> i32 { entry: a:i32 = i32.add(a, a)  ret a }
\*   "block_param":  fn main(a:i32) -> i32 { entry: br next(a)  next(a:i32): ret a }
\*   "block_params": fn main(a:i32) -> i32 { entry: br next(a, a)  next(x:i32, x:i32): ret x }
DupSource(variant) ==
  LET add == OperationExpr(Op("i32", "add"), <<V("a"), V("a")>>)
      main(blocks) == [items |-> <<FunctionDef("main", <<TI("a", "I32")>>, "I32", blocks)>>]
  IN CASE variant = "function" -> [items |-> <<OtherFunction, OtherFunction>>]
       [] variant = "import" -> [items |-> <<AstImport("other", <<>>, "Void"), OtherFunction>>]
       [] variant = "label" ->
            [items |-> <<FunctionDef("main", <<>>, "Void",
                           <<AstBlock("entry", <<>>, <<>>, AstRetVoid),
                             AstBlock("entry", <<>>, <<>>, AstRetVoid)>>)>>]
       [] variant = "dest" ->
            main(<<AstBlock("entry", <<>>,
                            <<Assign(TI("r", "I32"), add), Assign(TI("r", "I32"), add)>>,
                            AstRet(V("r")))>>)
       [] variant = "param" ->
            main(<<AstBlock("entry", <<>>, <<Assign(TI("a", "I32"), add)>>, AstRet(V("a")))>>)
       [] variant = "block_param" ->
            main(<<AstBlock("entry", <<>>, <<>>, AstBr("next", <<V("a")>>)),
                   AstBlock("next", <<TI("a", "I32")>>, <<>>, AstRet(V("a")))>>)
       [] variant = "block_params" ->
            main(<<AstBlock("entry", <<>>, <<>>, AstBr("next", <<V("a"), V("a")>>)),
                   AstBlock("next", <<TI("x", "I32"), TI("x", "I32")>>, <<>>, AstRet(V("x")))>>)

\* programs with one reference to a name that is not defined, followed by a
\* function without defect
\*   "variable":  fn main(a:i32) -> i32 { entry: r:i32 = i32.add(a, x)  ret r }
\*   "ret":       fn main(a:i32) -> i32 { entry: ret x }
\*   "argument":  fn main(a:i32) -> i32 { entry: br next(x)  next(y:i32): ret y }
\*   "call_arg":  fn main(a:i32) -> i32 { entry: r:i32 = call main(x)  ret r }
\*   "block":     fn main(a:i32) -> i32 { entry: br nowhere  next(y:i32): ret y }
\*   "brif":      fn main(a:i32) -> i32 { entry: br_if a, next(a), nowhere  next(y:i32): ret y }
\*   "function":  fn main(a:i32) -> i32 { entry: r:i32 = call nothing(a)  ret r }
\*   "call_void": fn main(a:i32) -> i32 { entry: call nothing(a)  ret a }
UndefSource(variant) ==
  LET next == AstBlock("next", <<TI("y", "I32")>>, <<>>, AstRet(V("y")))
      one(instructions, terminator) == <<AstBlock("entry", <<>>, instructions, terminator)>>
      blocks ==
        CASE variant = "variable" ->
               one(<<Assign(TI("r", "I32"),
                            OperationExpr(Op("i32", "add"), <<V("a"), V("x")>>))>>,
                   AstRet(V("r")))
          [] variant = "ret" -> one(<<>>, AstRet(V("x")))
          [] variant = "argument" ->
               <<AstBlock("entry", <<>>, <<>>, AstBr("next", <<V("x")>>)), next>>
          [] variant = "call_arg" ->
               one(<<Assign(TI("r", "I32"), CallExpr("main", <<V("x")>>))>>, AstRet(V("r")))
          [] variant = "block" ->
               <<AstBlock("entry", <<>>, <<>>, AstBr("nowhere", <<>>)), next>>
          [] variant = "brif" ->
               <<AstBlock("entry", <<>>, <<>>,
                          AstBrIf(V("a"), "next", <<V("a")>>, "nowhere", <<>>)), next>>
          [] variant = "function" ->
               one(<<Assign(TI("r", "I32"), CallExpr("nothing", <<V("a")>>))>>, AstRet(V("r")))
          [] variant = "call_void" ->
               one(<<ExpressionStatement(CallExpr("nothing", <<V("a")>>))>>, AstRet(V("a")))
  IN [items |-> <<FunctionDef("main", <<TI("a", "I32")>>, "I32", blocks), OtherFunction>>]

\* loads and stores at an address the caller chooses
\*   "live":  fn main(a:usize, v:i32) -> i32 {
\*              entry: p:usize = alloc(4)  i32.store(a, v)  r:i32 = i32.load(a)  ret r }
\*   "freed": fn main(a:usize, v:i32) -> i32 {
\*              entry: p:usize = alloc(4)  q:usize = alloc(4)  free(p)
\*                     r:i32 = i32.load(a)  i32.store(a, v)  ret r }
\*   "wide":  fn main(a:usize, v:i32) -> i32 {
\*              entry: p:usize = alloc(8)  q:usize = alloc(4)  i32.store(q, v)
\*                     i32.store(a, v)  r:i32 = i32.load(a)  free(q)  free(p)  ret r }
AccessSource(variant) ==
  LET sized(name, n) ==
        Assign(TI(name, "Usize"), OperationExpr(Op("", "alloc"), <<Constant(n)>>))
      alloc(name) == sized(name, 4)
      store_at(x) == ExpressionStatement(OperationExpr(Op("i32", "store"), <<V(x), V("v")>>))
      store == store_at("a")
      load == Assign(TI("r", "I32"), OperationExpr(Op("i32", "load"), <<V("a")>>))
      free_of(x) == ExpressionStatement(OperationExpr(Op("", "free"), <<V(x)>>))
      free == free_of("p")
  IN MainOnly(<<TI("a", "Usize"), TI("v", "I32")>>, "I32",
              CASE variant = "live" -> <<alloc("p"), store, load>>
                [] variant = "freed" -> <<alloc("p"), alloc("q"), free, load, store>>
                [] variant = "wide" -> <<sized("p", 8), alloc("q"), store_at("q"), store, load,
                                         free_of("q"), free>>,
              AstRet(V("r")))

\* a function that calls itself and a void function, all using the same ValueIds
\* fn note(x:i32) -> void { entry: y:i32 = i32.add(x, x)  h:i32 = i32.add(y, x)  ret }
\* fn bits(n:i32) -> i32 {
\*   entry: c:i32 = i32.lt(0, n)  br_if c, more, done
\*   more: h:i32 = i32.div(n, 2)  note(n)  r:i32 = call bits(h)  s:i32 = i32.add(r, 1)  ret s
\*   done: z:i32 = i32.const(0)  ret z }
BitsSource ==
  [items |-> <<FunctionDef("note", <<TI("x", "I32")>>, "Void",
     <<AstBlock("entry", <<>>,
                <<Assign(TI("y", "I32"), OperationExpr(Op("i32", "add"), <<V("x"), V("x")>>)),
                  Assign(TI("h", "I32"), OperationExpr(Op("i32", "add"), <<V("y"), V("x")>>))>>,
                AstRetVoid)>>),
    FunctionDef("bits", <<TI("n", "I32")>>, "I32",
     <<AstBlock("entry", <<>>,
                <<Assign(TI("c", "I32"), OperationExpr(Op("i32", "lt"), <<Constant(0), V("n")>>))>>,
                AstBrIf(V("c"), "more", <<>>, "done", <<>>)),
       AstBlock("more", <<>>,
                <<Assign(TI("h", "I32"), OperationExpr(Op("i32", "div"), <<V("n"), Constant(2)>>)),
                  ExpressionStatement(CallExpr("note", <<V("n")>>)),
                  Assign(TI("r", "I32"), CallExpr("bits", <<V("h")>>)),
                  Assign(TI("s", "I32"), OperationExpr(Op("i32", "add"), <<V("r"), Constant(1)>>))>>,
                AstRet(V("s"))),
       AstBlock("done", <<>>,
                <<Assign(TI("z", "I32"), OperationExpr(Op("i32", "const"), <<Constant(0)>>))>>,
                AstRet(V("z")))>>)>>]

\* a back-edge that swaps the parameters of its own block
\* fn main(a:i32, b:i32) -> i32 {
\*   entry: br loop(a, b)
\*   loop(x:i32, y:i32): c:i32 = i32.lt(x, y)  br_if c, loop(y, x), exit(y, c)
\*   exit(m:i32, k:i32): r:i32 = i32.add(m, k)  ret r }
SwapSource ==
  [items |-> <<FunctionDef("main", <<TI("a", "I32"), TI("b", "I32")>>, "I32",
     <<AstBlock("entry", <<>>, <<>>, AstBr("loop", <<V("a"), V("b")>>)),
       AstBlock("loop", <<TI("x", "I32"), TI("y", "I32")>>,
                <<Assign(TI("c", "I32"), OperationExpr(Op("i32", "lt"), <<V("x"), V("y")>>))>>,
                AstBrIf(V("c"), "loop", <<V("y"), V("x")>>, "exit", <<V("y"), V("c")>>)),
       AstBlock("exit", <<TI("m", "I32"), TI("k", "I32")>>,
                <<Assign(TI("r", "I32"), OperationExpr(Op("i32", "add"), <<V("m"), V("k")>>))>>,
                AstRet(V("r")))>>)>>]

\* a value used where its definition may not have run
\* fn main(c:i32) -> i32 {
\*   entry: br_if c, left, join
\*   left: x:i32 = i32.add(c, c)  br join
\*   join: ret x }
DomSource ==
  [items |-> <<FunctionDef("main", <<TI("c", "I32")>>, "I32",
     <<AstBlock("entry", <<>>, <<>>, AstBrIf(V("c"), "left", <<>>, "join", <<>>)),
       AstBlock("left", <<>>,
                <<Assign(TI("x", "I32"), OperationExpr(Op("i32", "add"), <<V("c"), V("c")>>))>>,
                AstBr("join", <<>>)),
       AstBlock("join", <<>>, <<>>, AstRet(V("x")))>>)>>]

\* programs that give a variable the type void
\*   "param":       fn main(a:void) -> void { entry: ret }
\*   "block_param": fn main() -> void { entry: br next  next(x:void): ret }
\*   "dest":        fn other() -> void { entry: ret }
\*                  fn main() -> void { entry: r:void = call other()  ret }
\*   "literal":     fn main() -> void { entry: ret 0 }
VoidSource(variant) ==
  CASE variant = "param" -> MainOnly(<<TI("a", "Void")>>, "Void", <<>>, AstRetVoid)
    [] variant = "block_param" ->
         [items |-> <<FunctionDef("main", <<>>, "Void",
            <<AstBlock("entry", <<>>, <<>>, AstBr("next", <<>>)),
              AstBlock("next", <<TI("x", "Void")>>, <<>>, AstRetVoid)>>)>>]
    [] variant = "dest" ->
         [items |-> <<OtherFunction,
                      FunctionDef("main", <<>>, "Void",
                        <<AstBlock("entry", <<>>,
                                   <<Assign(TI("r", "Void"), CallExpr("other", <<>>))>>,
                                   AstRetVoid)>>)>>]
    [] variant = "literal" -> MainOnly(<<>>, "Void", <<>>, AstRet(Constant(0)))

\* fn main(a:T, b:T) -> i32 { entry: d:i32 = T.op(a, b)  ret d }
CmpSource(t, op) ==
  LET T == TypeNamed(t)
  IN MainOnly(<<TI("a", T), TI("b", T)>>, "I32",
              <<Assign(TI("d", "I32"), OperationExpr(Op(t, op), <<V("a"), V("b")>>))>>,
              AstRet(V("d")))

\* fn main() -> usize { entry: x:usize = sizeof.T()  ret x }
SizeOfSource(t) ==
  MainOnly(<<>>, "Usize",
           <<Assign(TI("x", "Usize"), OperationExpr(Op("sizeof", t), <<>>))>>,
           AstRet(V("x")))

\* programs put together without the lowerer
\*   "no_blocks":  fn main() -> void, no block
\*   "bad_target": fn main() -> void { block 0: br <block 7> }
\*   "float":      fn main() -> void { block 0: ret }, a literal of type F32
BuiltProgram(variant) ==
  Program(<<>>,
    <<CASE variant = "no_blocks" -> NewFunction("main", <<>>, "Void")
        [] variant = "bad_target" ->
             Function("main", <<>>, "Void",
                      <<BasicBlock(0, <<>>, <<>>, Br(7, <<>>))>>, NoConstants, 0)
        [] variant = "float" ->
             Function("main", <<>>, "Void", <<BasicBlock(0, <<>>, <<>>, RetNone)>>,
                      Put(NoConstants, 0, ConstEntry(1, "F32")), 1)>>)

BinaryMnemonics ==
  {"add", "sub", "mul", "div", "rem", "and", "or", "xor", "shl", "shr",
   "eq", "ne", "lt", "le", "gt", "ge"}

Source(family, ty, op) == [family |-> family, ty |-> ty, op |-> op]

DupVariants == {"function", "import", "label", "dest", "param", "block_param", "block_params"}
UndefVariants ==
  {"variable", "ret", "argument", "call_arg", "block", "brif", "function", "call_void"}
\* the names of the types
TypeNames == {"i32", "i64", "f32", "f64", "usize", "void"}

\* the programs the model runs, by name
Sources ==
  {Source("bin", t, op) : t \in {"i32", "i64", "usize"}, op \in BinaryMnemonics}
  \cup {Source("un", t, op) : t \in {"i32", "i64"}, op \in {"neg", "not"}}
  \cup {Source("lit", t, op) : t \in {"i32", "i64", "usize"}, op \in {"add", "div"}}
  \cup {Source("const", "i32", op) : op \in BinaryMnemonics}
  \cup {Source(f, "", "") : f \in {"max", "sum", "spin", "call", "brif", "read", "free",
                                   "offset", "shadow", "loop", "dom", "bits", "swap"}}
  \cup {Source("br", "", v) : v \in {"type", "none", "many", "few", "const"}}
  \cup {Source("print", t, "") : t \in {"i32", "i64"}}
  \cup {Source("roundtrip", t, "") : t \in {"i32", "i64", "usize"}}
  \cup {Source("built", "", v) : v \in {"no_blocks", "bad_target", "float"}}
  \cup {Source("dup", "", v) : v \in DupVariants}
  \cup {Source("undef", "", v) : v \in UndefVariants}
  \cup {Source("cmp", t, op) : t \in {"i32", "i64", "usize"},
                              op \in {"eq", "ne", "lt", "le", "gt", "ge"}}
  \cup {Source("sizeof", t, "") : t \in TypeNames}
  \cup {Source("void", "", v) : v \in {"param", "block_param", "dest", "literal"}}
  \cup {Source("access", "", v) : v \in {"live", "freed", "wide"}}

\* the AST a source name stands for
AstOf(src) ==
  CASE src.family = "bin" -> BinSource(src.ty, src.op)
    [] src.family = "un" -> UnSource(src.ty, src.op)
    [] src.family = "lit" -> LitSource(src.ty, src.op)
    [] src.family = "const" -> ConstSource(src.ty, src.op)
    [] src.family = "max" -> MaxSource
    [] src.family = "sum" -> SumSource
    [] src.family = "spin" -> SpinSource
    [] src.family = "call" -> CallSource
    [] src.family = "br" -> BrSource(src.op)
    [] src.family = "brif" -> BrIfSource
    [] src.family = "print" -> PrintSource(src.ty)
    [] src.family = "read" -> ReadSource
    [] src.family = "roundtrip" -> RoundTripSource(src.ty)
    [] src.family = "free" -> FreeSource
    [] src.family = "offset" -> OffsetSource
    [] src.family = "shadow" -> ShadowSource
    [] src.family = "loop" -> LoopSource
    [] src.family = "dom" -> DomSource
    [] src.family = "bits" -> BitsSource
    [] src.family = "swap" -> SwapSource
    [] src.family = "access" -> AccessSource(src.op)
    [] src.family = "void" -> VoidSource(src.op)
    [] src.family = "dup" -> DupSource(src.op)
    [] src.family = "undef" -> UndefSource(src.op)
    [] src.family = "cmp" -> CmpSource(src.ty, src.op)
    [] src.family = "sizeof" -> SizeOfSource(src.ty)

\* the host ABIs a program is run with
AbisFor(src) ==
  CASE src.family \in {"print", "read"} -> {"console", "null"}
    [] src.family \in {"roundtrip", "free", "offset", "shadow", "access"} -> {"memory", "null"}
    [] OTHER -> {"null"}

\* the values the embedder passes: the extremes of each type and a few between
Boundary(ty) ==
  CASE ty \in {"I32", "I64"} ->
         {RV(ty, v) : v \in {MinInt(ty), 0 - 1, 0, 2, MaxInt(ty)}}
    [] ty = "Usize" ->
         {Usize(v) : v \in {0, 2, NextAddrStart, NextAddrStart + 1, MaxInt("Usize")}}
    [] OTHER -> {Void}

\* argument lists of the wrong length or type
ProbeValues == {I32(0), I64(0), Usize(0), Void}
ProbeLists ==
  {<<>>} \cup {<<x>> : x \in ProbeValues} \cup {<<x, y>> : x \in ProbeValues, y \in {I32(0)}}

\* every well-typed argument list over the boundary values
ValidArgs(params) ==
  {args \in [1..Len(params) -> UNION {Boundary(t) : t \in IntTypes}] :
     \A i \in 1..Len(params) : args[i].ty = params[i]}

(***************************************************************************)
(* VM: operations                                                          *)
(***************************************************************************)
\* lower_program on the source at hand
Lower ==
  /\ status = "source"
  /\ source.family # "built"
  /\ LET Outcome(r) ==
           IF r.tag = "ok"
           THEN /\ program' = r.program
                /\ status' = "lowered"
                /\ UNCHANGED errors
           ELSE /\ errors' = r.errors
                /\ status' = "rejected"
                /\ UNCHANGED program
     IN Outcome(lower_program(AstOf(source)))
  /\ UNCHANGED <<source, host_abi, overflow_checks, max_stack_depth, call_stack, memory,
                 next_addr, result, request, calls, jit>>

\* a program put together without the lowerer
Build ==
  /\ status = "source"
  /\ source.family = "built"
  /\ program' = BuiltProgram(source.op)
  /\ status' = "lowered"
  /\ UNCHANGED <<source, errors, host_abi, overflow_checks, max_stack_depth, call_stack,
                 memory, next_addr, result, request, calls, jit>>

\* VM::new(program, host_abi), with a fresh host ABI
NewVM(abi) ==
  /\ status = "lowered"
  /\ host_abi' = abi
  /\ max_stack_depth' = DefaultMaxStackDepth
  /\ call_stack' = <<>>
  /\ memory' = NoMemory
  /\ next_addr' = NextAddrStart
  /\ status' = "idle"
  /\ UNCHANGED <<source, program, errors, overflow_checks, result, request, calls, jit>>

\* VM::set_max_stack_depth
SetMaxStackDepth(d) ==
  /\ Quiescent
  /\ calls < MaxCalls
  /\ max_stack_depth' = d
  /\ UNCHANGED <<built, call_stack, memory, next_addr, status, result, request, calls, jit>>

\* the embedder's VM::call_function(name, args), up to the first frame
CallFunction(name, args) ==
  /\ Quiescent
  /\ calls < MaxCalls
  /\ calls' = calls + 1
  /\ request' = [name |-> name, args |-> args]
  /\ LET r == call_function(program, Len(call_stack), max_stack_depth, name, args)
     IN IF r.tag = "err"
        THEN /\ status' = "returned"
             /\ result' = r
             /\ UNCHANGED call_stack
        ELSE /\ status' = "running"
             /\ result' = NoResult
             /\ call_stack' = <<r.frame>>
  /\ UNCHANGED <<built, max_stack_depth, memory, next_addr, jit>>

\* execute_function: the current block of the top frame does not exist
BlockMissing ==
  /\ status = "running"
  /\ TopBlockIndex = 0
  /\ Raise("BlockNotFound")
  /\ UNCHANGED <<built, max_stack_depth, request, calls, jit>>

\* execute_function: one instruction of the current block, then ip += 1. A
\* Call/CallVoid of a program function pushes the callee's frame instead; the
\* caller's ip advances when the callee returns.
ExecuteInstruction ==
  /\ status = "running"
  /\ TopBlockIndex # 0
  /\ ~AtTerminator
  /\ LET Pushed(c) ==
           IF c.tag = "err" THEN Raise(c.err)
           ELSE /\ call_stack' = Append(call_stack, c.frame)
                /\ UNCHANGED <<memory, next_addr, status, result>>
         Outcome(r) ==
           CASE r.tag = "ok" ->
                  /\ call_stack' = WithTop([Top EXCEPT
                                              !.values = r.values,
                                              !.instruction_pointer = @ + 1])
                  /\ memory' = r.memory
                  /\ next_addr' = r.next_addr
                  /\ UNCHANGED <<status, result>>
             [] r.tag = "err" -> Raise(r.err)
             [] r.tag = "panic" ->
                  /\ status' = "panicked"
                  /\ UNCHANGED <<call_stack, memory, next_addr, result>>
             [] r.tag = "call" ->
                  Pushed(call_function(program, Len(call_stack), max_stack_depth,
                                        r.function, r.args))
     IN \E inp \in StdinInputs :
          Outcome(execute_instruction(CurrentInstruction, Top.values, host_abi,
                                      memory, next_addr, overflow_checks, inp))
  /\ UNCHANGED <<built, max_stack_depth, request, calls, jit>>

\* a caller's frame in which the values the callee held under the same ids
\* have taken the place of the caller's
ResumedClobbered(frame, instr, rv) ==
  [frame EXCEPT
     !.values = [id \in DOMAIN @ \cup (IF instr.kind = "Call" THEN {instr.dest} ELSE {}) |->
                   IF id \in DOMAIN Top.values THEN Top.values[id]
                   ELSE IF id \in DOMAIN @ THEN @[id] ELSE rv],
     !.instruction_pointer = @ + 1]

\* the frame of a caller once its Call/CallVoid has returned rv
Resumed(frame, instr, rv) ==
  [frame EXCEPT
     !.values = IF instr.kind = "Call" THEN set_value(@, instr.dest, rv) ELSE @,
     !.instruction_pointer = @ + 1]

\* the instruction a frame is at
InstructionAt(frame) ==
  LET func == program.functions[FindFunction(program, frame.function_name)]
      block == func.blocks[FindBlock(func, frame.current_block)]
  IN block.instructions[frame.instruction_pointer + 1]

\* execute_function: Terminator::Ret; call_function pops the frame and hands
\* the value to its caller
Return ==
  /\ status = "running"
  /\ TopBlockIndex # 0
  /\ AtTerminator
  /\ TopBlock.terminator.kind = "Ret"
  /\ LET t == TopBlock.terminator
         n == Len(call_stack)
     IN IF t.has_value /\ ~HasValue(Top.values, t.value)
        THEN Raise("ValueNotFound")
        ELSE LET rv == IF t.has_value THEN Top.values[t.value] ELSE Void
             IN /\ UNCHANGED <<memory, next_addr>>
                /\ IF n = 1
                   THEN /\ call_stack' = <<>>
                        /\ status' = "returned"
                        /\ result' = Ok(rv)
                   ELSE /\ call_stack' =
                             [SubSeq(call_stack, 1, n - 1) EXCEPT
                                ![n - 1] = Resumed(@, InstructionAt(@), rv)]
                        /\ UNCHANGED <<status, result>>
  /\ UNCHANGED <<built, max_stack_depth, request, calls, jit>>

\* execute_function: Terminator::Br and Terminator::BrIf
Branch ==
  /\ status = "running"
  /\ TopBlockIndex # 0
  /\ AtTerminator
  /\ TopBlock.terminator.kind \in {"Br", "BrIf"}
  /\ LET t == TopBlock.terminator
         c == IF t.kind = "Br" THEN Ok(TRUE)
              ELSE IF ~HasValue(Top.values, t.cond) THEN Err("ValueNotFound")
              ELSE Truthy(Top.values[t.cond])
         r == IF c.tag = "err" THEN c
              ELSE IF t.kind = "Br" THEN take_branch(TopFunction, Top, t.target, t.args)
              ELSE IF c.value
                   THEN take_branch(TopFunction, Top, t.true_target, t.true_args)
                   ELSE take_branch(TopFunction, Top, t.false_target, t.false_args)
     IN IF r.tag = "err" THEN Raise(r.err)
        ELSE /\ call_stack' = WithTop(r.value)
             /\ UNCHANGED <<memory, next_addr, status, result>>
  /\ UNCHANGED <<built, max_stack_depth, request, calls, jit>>

\* an error that returns to the embedder without a frame being popped
UnwindWithoutPop ==
  /\ status = "unwinding"
  /\ status' = "returned"
  /\ UNCHANGED <<built, max_stack_depth, call_stack, memory, next_addr, result, request,
                 calls, jit>>

\* an error on its way out: each call_function pops its frame and returns it
Unwind ==
  /\ status = "unwinding"
  /\ call_stack' = SubSeq(call_stack, 1, Len(call_stack) - 1)
  /\ status' = IF Len(call_stack) = 1 THEN "returned" ELSE "unwinding"
  /\ UNCHANGED <<built, max_stack_depth, memory, next_addr, result, request, calls, jit>>


(***************************************************************************)
(* JIT: operations                                                         *)
(***************************************************************************)
\* the JIT half of test_vm_jit_compatibility: once a fresh VM with the null ABI
\* has run the request, JIT::compile on the same program and a call of the
\* same function with the same arguments
JitCompile ==
  /\ status \in {"returned", "panicked"}
  /\ jit.status = "none"
  /\ calls = 1
  /\ host_abi = "null"
  /\ max_stack_depth = DefaultMaxStackDepth
  /\ program.imports = <<>>
  /\ FindFunction(program, request.name) # 0
  /\ [i \in 1..Len(request.args) |-> get_type(request.args[i])]
       = program.functions[FindFunction(program, request.name)].params
  /\ jit' = IF compile(program)
            THEN Running(<<NativeCall(program, request.name,
                                      [i \in 1..Len(request.args) |->
                                         ToNative(request.args[i])])>>)
            ELSE Finished(Err("CompileError"))
  /\ UNCHANGED <<built, vm>>

\* the compiled code runs one instruction or terminator
JitExecute ==
  /\ jit.status = "running"
  /\ jit' = NativeStep(program, jit.stack)
  /\ UNCHANGED <<built, vm>>

(***************************************************************************)
(* Specification                                                           *)
(***************************************************************************)
Init ==
  /\ source \in Sources
  /\ overflow_checks \in BOOLEAN
  /\ program = Program(<<>>, <<>>)
  /\ errors = <<>>
  /\ host_abi = "null"
  /\ max_stack_depth = DefaultMaxStackDepth
  /\ call_stack = <<>>
  /\ memory = NoMemory
  /\ next_addr = NextAddrStart
  /\ status = "source"
  /\ result = NoResult
  /\ request = NoRequest
  /\ calls = 0
  /\ jit = NoJit

\* the names an embedder calls: the program's functions and one it has not
CallNames == {program.functions[i].name : i \in 1..Len(program.functions)} \cup {"missing"}

\* the argument lists an embedder passes to name
CallArgs(name) ==
  LET fi == FindFunction(program, name)
  IN IF fi = 0 THEN {<<>>}
     ELSE ValidArgs(program.functions[fi].params) \cup ProbeLists

Next ==
  \/ Lower
  \/ Build
  \/ \E abi \in AbisFor(source) : NewVM(abi)
  \/ \E d \in 0..MaxDepthCap : SetMaxStackDepth(d)
  \/ \E name \in CallNames : \E args \in CallArgs(name) : CallFunction(name, args)
  \/ BlockMissing
  \/ ExecuteInstruction
  \/ Return
  \/ Branch
  \/ Unwind
  \/ JitCompile
  \/ JitExecute

Spec == Init /\ [][Next]_vars

\* the VM alone running the programs that recurse and call: program functions,
\* host functions, and a program function named as a host function
InitStack == Init /\ source.family \in {"spin", "call", "print", "read", "shadow"}

NextStack ==
  \/ Lower
  \/ \E abi \in AbisFor(source) : NewVM(abi)
  \/ \E d \in 0..MaxDepthCap : SetMaxStackDepth(d)
  \/ \E name \in CallNames : \E args \in CallArgs(name) : CallFunction(name, args)
  \/ ExecuteInstruction
  \/ Return
  \/ Unwind

SpecStack == InitStack /\ [][NextStack]_vars

\* the VM alone running the programs that allocate, store, load and free
InitMemory == Init /\ source.family \in {"roundtrip", "free", "offset", "access"}

NextMemory ==
  \/ Lower
  \/ \E abi \in AbisFor(source) : NewVM(abi)
  \/ \E d \in 0..MaxDepthCap : SetMaxStackDepth(d)
  \/ \E name \in CallNames : \E args \in CallArgs(name) : CallFunction(name, args)
  \/ ExecuteInstruction
  \/ Return
  \/ Unwind

SpecMemory == InitMemory /\ [][NextMemory]_vars

\* the lowerer on programs with and without defects, and the VM running those
\* it accepts
InitLowering == Init /\ source.family \in {"dup", "undef", "cmp", "sizeof", "dom", "void"}

NextLowering ==
  \/ Lower
  \/ NewVM("null")
  \/ \E name \in CallNames : \E args \in CallArgs(name) : CallFunction(name, args)
  \/ ExecuteInstruction
  \/ Return
  \/ Branch
  \/ Unwind

SpecLowering == InitLowering /\ [][NextLowering]_vars

\* the VM alone running the counting loop on 0, 1, .. MaxN (and on -1); a call
\* of execute_function runs to its end without yielding, hence the fairness
InitLoop == Init /\ source.family = "loop"

LoopArgs == {<<I32(n)>> : n \in (0 - 1)..MaxN}

Dispatch ==
  \/ ExecuteInstruction
  \/ Return
  \/ Branch

NextLoop ==
  \/ Lower
  \/ NewVM("null")
  \/ \E args \in LoopArgs : CallFunction("main", args)
  \/ Dispatch

SpecLoop == InitLoop /\ [][NextLoop]_vars /\ WF_vars(Dispatch)

\* the VM alone running the programs that return from nested calls and branch
\* with arguments
InitFrames == Init /\ source.family \in {"bits", "swap"}

NextFrames ==
  \/ Lower
  \/ NewVM("null")
  \/ \E d \in 0..MaxDepthCap : SetMaxStackDepth(d)
  \/ \E name \in CallNames : \E args \in CallArgs(name) : CallFunction(name, args)
  \/ ExecuteInstruction
  \/ Return
  \/ Branch
  \/ Unwind

SpecFrames == InitFrames /\ [][NextFrames]_vars

(***************************************************************************)
(* Static types of an IR program                                           *)
(***************************************************************************)
Comparisons == {"Eq", "Ne", "Lt", "Le", "Gt", "Ge"}

\* does the instruction define a value, and of which type
HasDest(instr) == instr.kind \notin {"CallVoid", "Store", "Free"}
DestType(instr) ==
  CASE instr.kind \in {"BinaryOp", "UnaryOp", "Load", "Const"} -> instr.ty
    [] instr.kind = "Call" -> instr.return_type
    [] instr.kind \in {"PtrAdd", "SizeOf", "Alloc"} -> "Usize"
    [] instr.kind = "Convert" -> instr.to_ty

\* the (ValueId, Type) pairs a function declares: its parameters (ValueId(i)
\* for the i-th), the block parameters, the destinations and the literals
Declarations(func) ==
  {Param(i - 1, func.params[i]) : i \in 1..Len(func.params)}
  \cup UNION {{func.blocks[b].params[i] : i \in 1..Len(func.blocks[b].params)} :
                b \in 1..Len(func.blocks)}
  \cup UNION {{Param(func.blocks[b].instructions[i].dest,
                     DestType(func.blocks[b].instructions[i])) :
                 i \in {j \in 1..Len(func.blocks[b].instructions) :
                          HasDest(func.blocks[b].instructions[j])}} :
                b \in 1..Len(func.blocks)}
  \cup {Param(c, func.constants[c].ty) : c \in DOMAIN func.constants}

Declared(func, id) == \E d \in Declarations(func) : d.id = id
DeclaredType(func, id) == (CHOOSE d \in Declarations(func) : d.id = id).ty

\* id is declared, once, with type ty
Typed(func, id, ty) == {d.ty : d \in {x \in Declarations(func) : x.id = id}} = {ty}

\* a branch passes as many arguments as the target block has parameters, each
\* of the parameter's type
Fits(func, target, args) ==
  LET Match(params) ==
        /\ Len(args) = Len(params)
        /\ \A i \in 1..Len(args) : Typed(func, args[i], params[i].ty)
  IN FindBlock(func, target) # 0 /\ Match(func.blocks[FindBlock(func, target)].params)

TerminatorFits(func, t) ==
  CASE t.kind = "Br" -> Fits(func, t.target, t.args)
    [] t.kind = "BrIf" -> /\ Fits(func, t.true_target, t.true_args)
                          /\ Fits(func, t.false_target, t.false_args)
    [] OTHER -> TRUE

BranchesFit(prog) ==
  \A f \in 1..Len(prog.functions) :
    \A b \in 1..Len(prog.functions[f].blocks) :
      TerminatorFits(prog.functions[f], prog.functions[f].blocks[b].terminator)

\* the signature a call names: a function of the program, else an import
Callee(prog, name) ==
  LET fi == FindFunction(prog, name)
      IsIt(d) == d.name = name
      ii == FirstIndex(prog.imports, IsIt)
      Sig(d) == [params |-> d.params, return_type |-> d.return_type]
  IN IF fi # 0 THEN Sig(prog.functions[fi])
     ELSE IF ii # 0 THEN Sig(prog.imports[ii])
     ELSE [params |-> <<>>, return_type |-> ""]

\* the arguments of a call have the types the callee takes
ArgsAgree(func, args, params) ==
  /\ Len(args) = Len(params)
  /\ \A i \in 1..Len(args) : Typed(func, args[i], params[i])

\* operand types match the instruction's declared type; a comparison is typed
\* I32; addresses are Usize
OperandsAgree(prog, func, instr) ==
  CASE instr.kind = "BinaryOp" ->
         /\ instr.ty \in IntTypes
         /\ Typed(func, instr.lhs, instr.ty)
         /\ Typed(func, instr.rhs, instr.ty)
         /\ instr.op \in Comparisons => instr.ty = "I32"
    [] instr.kind = "UnaryOp" -> instr.ty \in IntTypes /\ Typed(func, instr.operand, instr.ty)
    [] instr.kind = "Call" ->
         /\ Callee(prog, instr.function).return_type = instr.return_type
         /\ ArgsAgree(func, instr.args, Callee(prog, instr.function).params)
    [] instr.kind = "CallVoid" ->
         /\ Callee(prog, instr.function).return_type = "Void"
         /\ ArgsAgree(func, instr.args, Callee(prog, instr.function).params)
    [] instr.kind = "Load" -> Typed(func, instr.address, "Usize")
    [] instr.kind = "Store" ->
         Typed(func, instr.address, "Usize") /\ Typed(func, instr.value, instr.ty)
    [] instr.kind = "PtrAdd" ->
         /\ Typed(func, instr.ptr, "Usize")
         /\ \E t \in IntTypes : Typed(func, instr.offset, t)
    [] instr.kind = "Alloc" -> Typed(func, instr.size, "Usize")
    [] instr.kind = "Free" -> Typed(func, instr.ptr, "Usize")
    [] instr.kind = "Convert" -> Typed(func, instr.src, instr.from_ty)
    [] OTHER -> TRUE

\* the value a Ret hands back has the function's return type
ReturnAgrees(func, t) ==
  CASE t.kind = "Ret" /\ t.has_value -> Typed(func, t.value, func.return_type)
    [] t.kind = "Ret" -> func.return_type = "Void"
    [] t.kind = "BrIf" -> Typed(func, t.cond, "I32")
    [] OTHER -> TRUE

\* every ValueId has one definition and one type
SingleAssignment(func) ==
  \A d, e \in Declarations(func) : d.id = e.id => d = e

WellFormedFunction(prog, func) ==
  /\ Len(func.blocks) > 0
  /\ SingleAssignment(func)
  /\ \A b \in 1..Len(func.blocks) :
       /\ \A i \in 1..Len(func.blocks[b].instructions) :
            OperandsAgree(prog, func, func.blocks[b].instructions[i])
       /\ ReturnAgrees(func, func.blocks[b].terminator)
       /\ TerminatorFits(func, func.blocks[b].terminator)

WellFormed(prog) ==
  \A f \in 1..Len(prog.functions) : WellFormedFunction(prog, prog.functions[f])

(***************************************************************************)
(* Backend equivalence                                                     *)
(***************************************************************************)
\* what a caller observes of a run: the returned value, or a failure
Observed(r) == IF r.tag = "ok" THEN r ELSE [tag |-> "failure"]

\* what the VM run of the request came to; a panic is a failure
VMOutcome == IF status = "panicked" THEN [tag |-> "failure"] ELSE Observed(result)

\* C1: for a well-formed program without host functions, once the VM and the
\* JIT-compiled code have both run the same function on the same arguments,
\* they show the same outcome: the same returned value, or a failure in both.
C1_BackendEquivalence ==
  (jit.status = "done" /\ WellFormed(program)) => VMOutcome = Observed(jit.result)

\* C2: whatever the program, the arguments and the host ABI, a failure met
\* during call_function comes back as a VMError; the VM never panics.
C2_NeverPanics == status # "panicked"

(***************************************************************************)
(* Call depth                                                              *)
(***************************************************************************)
\* the VM is about to execute an instruction of the top frame
AtInstruction == status = "running" /\ TopBlockIndex # 0 /\ ~AtTerminator

\* the next instruction is a Call/CallVoid that the VM hands to call_function:
\* its arguments are in the frame and the host ABI does not serve its name
NestedCall ==
  /\ AtInstruction
  /\ CurrentInstruction.kind \in {"Call", "CallVoid"}
  /\ AllPresent(Top.values, CurrentInstruction.args)
  /\ ~has_function(host_abi, CurrentInstruction.function)

\* call_function(name, args) gets as far as the depth check: the function
\* exists and takes that many arguments
ReachesDepthCheck(name, count) ==
  /\ FindFunction(program, name) # 0
  /\ count = Len(program.functions[FindFunction(program, name)].params)

\* a step in which the embedder calls call_function
OutermostCall == calls' = calls + 1

\* the call stack is full
AtCap == Len(call_stack) >= max_stack_depth

\* C3 (as amended): the call stack never holds more than max_stack_depth
\* frames, and a call_function that names a function of the program with the
\* right number of arguments while max_stack_depth frames are on the stack
\* fails with StackOverflow, which the outermost call_function returns.
C3_StackCap ==
  [][/\ Len(call_stack') <= max_stack_depth'
     /\ (NestedCall /\ AtCap
           /\ ReachesDepthCheck(CurrentInstruction.function,
                                Len(CurrentInstruction.args)))
          => (status' = "unwinding" /\ result' = Err("StackOverflow"))
     /\ (OutermostCall /\ AtCap
           /\ ReachesDepthCheck(request'.name, Len(request'.args)))
          => (status' = "returned" /\ result' = Err("StackOverflow"))
     /\ status = "unwinding" => (result' = result /\ status' \in {"unwinding", "returned"})
    ]_vars

\* a nested call has just met the cap that set_max_stack_depth gave
C3_Witness ==
  /\ status = "unwinding"
  /\ result = Err("StackOverflow")
  /\ max_stack_depth = MaxDepthCap
  /\ Len(call_stack) = max_stack_depth

\* C3 (as stated): any call attempted while max_stack_depth frames are on the
\* stack makes the outermost call_function return StackOverflow.
C3_AsStated ==
  [][/\ (NestedCall /\ AtCap) => result' = Err("StackOverflow")
     /\ (OutermostCall /\ AtCap) => result' = Err("StackOverflow")
    ]_vars

(***************************************************************************)
(* Integer arithmetic                                                      *)
(***************************************************************************)
\* the next instruction is a BinaryOp with one of ops, and both operands are
\* in the frame as integers of one type
IntegerBinaryOp(ops) ==
  /\ AtInstruction
  /\ CurrentInstruction.kind = "BinaryOp"
  /\ CurrentInstruction.op \in ops
  /\ HasValue(Top.values, CurrentInstruction.lhs)
  /\ HasValue(Top.values, CurrentInstruction.rhs)
  /\ get_type(Top.values[CurrentInstruction.lhs]) \in IntTypes
  /\ get_type(Top.values[CurrentInstruction.lhs])
       = get_type(Top.values[CurrentInstruction.rhs])

\* the exact result of op on a and b, reduced modulo 2^N into ty
Wrapped(op, ty, a, b) ==
  CASE op = "Add" -> Wrap(ty, a + b)
    [] op = "Sub" -> Wrap(ty, a - b)
    [] op = "Mul" -> WrappingMul(ty, a, b)

\* C4: a Div or Rem of two integers of one type whose divisor is zero makes
\* call_function fail with DivisionByZero.
C4_DivisionByZero ==
  [][(IntegerBinaryOp({"Div", "Rem"}) /\ Top.values[CurrentInstruction.rhs].v = 0)
       => (status' = "unwinding" /\ result' = Err("DivisionByZero"))]_vars

\* C5: an Add, Sub or Mul of two integers of one type stores in dest the exact
\* result reduced modulo 2^N, whatever the operands; it never fails or aborts.
C5_WrappingArithmetic ==
  [][IntegerBinaryOp({"Add", "Sub", "Mul"})
       => /\ status' = "running"
          /\ Len(call_stack') = Len(call_stack)
          /\ HasValue(call_stack'[Len(call_stack)].values, CurrentInstruction.dest)
          /\ call_stack'[Len(call_stack)].values[CurrentInstruction.dest]
               = RV(get_type(Top.values[CurrentInstruction.lhs]),
                    Wrapped(CurrentInstruction.op,
                            get_type(Top.values[CurrentInstruction.lhs]),
                            Top.values[CurrentInstruction.lhs].v,
                            Top.values[CurrentInstruction.rhs].v))]_vars

(***************************************************************************)
(* Type preservation                                                       *)
(***************************************************************************)
\* the ValueIds the next step of the top frame reads: the operands of the
\* instruction, the value of a Ret, the arguments of a Br, the condition of a
\* BrIf and the arguments of the arm it takes
Reads ==
  LET t == TopBlock.terminator
      arm == IF ~HasValue(Top.values, t.cond) THEN <<>>
             ELSE IF Truthy(Top.values[t.cond]) = Ok(TRUE) THEN t.true_args
             ELSE IF Truthy(Top.values[t.cond]) = Ok(FALSE) THEN t.false_args
             ELSE <<>>
  IN IF ~AtTerminator THEN Operands(CurrentInstruction)
     ELSE IF t.kind = "BrIf" THEN <<t.cond>> \o arm
     ELSE Operands(t)

\* C6: in a program the lowerer accepted, every SSA value an instruction or
\* terminator reads holds a RuntimeValue of the type the program declares for
\* it, block parameters and literals included.
C6_TypePreservation ==
  (status = "running" /\ source.family # "built" /\ TopBlockIndex # 0) =>
    \A i \in 1..Len(Reads) :
      HasValue(Top.values, Reads[i]) =>
        Typed(TopFunction, Reads[i], get_type(Top.values[Reads[i]]))

(***************************************************************************)
(* Guest memory                                                            *)
(***************************************************************************)
\* the request is main with arguments of main's parameter types
ValidRequest ==
  /\ request.name = "main"
  /\ FindFunction(program, "main") # 0
  /\ request.args \in ValidArgs(program.functions[FindFunction(program, "main")].params)

\* C7: under the memory host ABI, a value stored at an address that alloc
\* returned for sizeof(T) bytes is the value a Load of T at that address
\* yields, when no store overlaps and nothing is freed in between: the round
\* trip program (store v at p, store w at q, load p) returns v for every v and
\* w of I32, I64 and Usize, and never fails on the way (unless the cap on the
\* call stack allows main no frame at all).
C7_RoundTrip ==
  (/\ source.family = "roundtrip"
   /\ host_abi = "memory"
   /\ calls > 0
   /\ ValidRequest
   /\ result # Err("StackOverflow")) =>
    /\ status \in {"running", "returned"}
    /\ status = "returned" => result = Ok(request.args[1])

\* a negative value has come back from memory past a second, different store
C7_Witness ==
  /\ source.family = "roundtrip"
  /\ host_abi = "memory"
  /\ status = "returned"
  /\ ValidRequest
  /\ request.args[1].v < 0
  /\ request.args[2] # request.args[1]
  /\ result = Ok(request.args[1])

\* the next instruction is a Free of a Usize address held in the frame
FreeOfAddress ==
  /\ AtInstruction
  /\ host_abi = "memory"
  /\ CurrentInstruction.kind = "Free"
  /\ HasValue(Top.values, CurrentInstruction.ptr)
  /\ get_type(Top.values[CurrentInstruction.ptr]) = "Usize"

FreedAddress == Top.values[CurrentInstruction.ptr].v

\* the step's instruction failed with HostCallError
HostCallFailed == status' = "unwinding" /\ result' = Err("HostCallError")

\* C8: under the memory host ABI, Free(a) fails with HostCallError exactly
\* when a is not zero and is not the base of a live allocation; otherwise it
\* goes on to the next instruction. A failing Free and Free(0) leave the live
\* allocations and their contents as they were; a Free of a base removes that
\* allocation alone.
C8_Free ==
  [][FreeOfAddress =>
       /\ HostCallFailed <=> (FreedAddress # 0 /\ FreedAddress \notin DOMAIN memory)
       /\ ~HostCallFailed => (status' = "running" /\ Len(call_stack') = Len(call_stack))
       /\ (HostCallFailed \/ FreedAddress = 0) => memory' = memory
       /\ (FreedAddress \in DOMAIN memory) =>
            memory' = [b \in DOMAIN memory \ {FreedAddress} |-> memory[b]]
    ]_vars

\* a Free of an address inside a live allocation has just failed
C8_Witness ==
  /\ status = "unwinding"
  /\ result = Err("HostCallError")
  /\ host_abi = "memory"
  /\ CurrentInstruction.kind = "Free"
  /\ \E b \in DOMAIN memory : b < FreedAddress /\ FreedAddress < b + Len(memory[b])

(***************************************************************************)
(* Branch arguments                                                        *)
(***************************************************************************)
\* the next step is a Br, or a BrIf whose condition can be judged
AtBranch ==
  /\ status = "running"
  /\ TopBlockIndex # 0
  /\ AtTerminator
  /\ \/ TopBlock.terminator.kind = "Br"
     \/ /\ TopBlock.terminator.kind = "BrIf"
        /\ HasValue(Top.values, TopBlock.terminator.cond)
        /\ Truthy(Top.values[TopBlock.terminator.cond]).tag = "ok"

\* the target and the arguments of the branch, or of the arm a BrIf takes
Taken ==
  LET t == TopBlock.terminator
  IN IF t.kind = "Br" THEN [target |-> t.target, args |-> t.args]
     ELSE IF Truthy(Top.values[t.cond]).value
          THEN [target |-> t.true_target, args |-> t.true_args]
          ELSE [target |-> t.false_target, args |-> t.false_args]

\* the taken branch passes a number of arguments that is not the number of
\* parameters of its target
ArityMismatch ==
  /\ AtBranch
  /\ FindBlock(TopFunction, Taken.target) # 0
  /\ Len(Taken.args)
       # Len(TopFunction.blocks[FindBlock(TopFunction, Taken.target)].params)

\* C9: a Br, or the taken arm of a BrIf, whose argument count differs from
\* the parameter count of its target stops the execution with
\* InvalidInstruction, whatever the count; the branch is not taken.
C9_BranchArity ==
  [][ArityMismatch => (status' = "unwinding" /\ result' = Err("InvalidInstruction"))]_vars

\* C10: a program the lowerer yields has, in every Br and every arm of every
\* BrIf, as many arguments as the target has parameters, each of the
\* parameter's type; and when the lowerer rejects a program over a branch with
\* the wrong number of arguments, ArgumentMismatch is among the errors.
C10_LoweredBranchesFit ==
  /\ (source.family # "built" /\ status \notin {"source", "rejected"})
       => BranchesFit(program)
  /\ (status = "rejected" /\ source.family = "br" /\ source.op \in {"none", "many", "few"})
       => \E i \in 1..Len(errors) : errors[i] = "ArgumentMismatch"

(***************************************************************************)
(* Comparisons and unary operations                                        *)
(***************************************************************************)
\* does the relation op hold between a and b
Holds(op, a, b) ==
  CASE op = "Eq" -> a = b
    [] op = "Ne" -> a # b
    [] op = "Lt" -> a < b
    [] op = "Le" -> a <= b
    [] op = "Gt" -> a > b
    [] op = "Ge" -> a >= b

\* the value the step leaves in the top frame for id (the frame stays on top)
StoredIn(id, rv) ==
  /\ status' = "running"
  /\ Len(call_stack') = Len(call_stack)
  /\ HasValue(call_stack'[Len(call_stack)].values, id)
  /\ call_stack'[Len(call_stack)].values[id] = rv

\* C11: a comparison (Eq, Ne, Lt, Le, Gt, Ge) of two integers of one type
\* (I32, I64, Usize) stores I32(1) in dest when the relation holds between
\* the operands and I32(0) when it does not.
C11_Comparisons ==
  [][IntegerBinaryOp(Comparisons)
       => StoredIn(CurrentInstruction.dest,
                   I32(IF Holds(CurrentInstruction.op,
                                Top.values[CurrentInstruction.lhs].v,
                                Top.values[CurrentInstruction.rhs].v)
                       THEN 1 ELSE 0))]_vars

\* the next instruction is a UnaryOp whose operand is in the frame, an integer
IntegerUnaryOp ==
  /\ AtInstruction
  /\ CurrentInstruction.kind = "UnaryOp"
  /\ HasValue(Top.values, CurrentInstruction.operand)
  /\ get_type(Top.values[CurrentInstruction.operand]) \in IntTypes

\* wrapping negation and bitwise complement of x in ty
Negated(op, ty, x) ==
  CASE op = "Neg" -> Wrap(ty, 0 - x)
    [] op = "Not" -> Wrap(ty, 0 - x - 1)

\* C12: a UnaryOp on an integer x stores in dest the wrapping negation of x
\* for Neg and the bitwise complement of x for Not, with the operand's type.
C12_UnaryOp ==
  [][IntegerUnaryOp
       => StoredIn(CurrentInstruction.dest,
                   RV(get_type(Top.values[CurrentInstruction.operand]),
                      Negated(CurrentInstruction.op,
                              get_type(Top.values[CurrentInstruction.operand]),
                              Top.values[CurrentInstruction.operand].v)))]_vars

(***************************************************************************)
(* Call routing                                                            *)
(***************************************************************************)
\* the next instruction is a Call/CallVoid whose arguments are in the frame
AtCall ==
  /\ AtInstruction
  /\ CurrentInstruction.kind \in {"Call", "CallVoid"}
  /\ AllPresent(Top.values, CurrentInstruction.args)

\* the step is what the host ABI's function makes of the call: its value in
\* dest and its effect on the host memory, its Err as HostCallError, its panic
ServedByHost(r) ==
  CASE r.tag = "ok" ->
         /\ IF CurrentInstruction.kind = "Call"
            THEN StoredIn(CurrentInstruction.dest, r.value)
            ELSE status' = "running" /\ Len(call_stack') = Len(call_stack)
         /\ call_stack'[Len(call_stack)].instruction_pointer = Top.instruction_pointer + 1
         /\ memory' = r.memory
         /\ next_addr' = r.next_addr
    [] r.tag = "err" -> HostCallFailed /\ call_stack' = call_stack
    [] OTHER -> status' = "panicked" /\ call_stack' = call_stack

\* the step is what call_function makes of the call: a frame for the program's
\* function on top of the caller's, or its error
ServedByProgram(c) ==
  IF c.tag = "err"
  THEN status' = "unwinding" /\ result' = c /\ call_stack' = call_stack
  ELSE /\ call_stack' = Append(call_stack, c.frame)
       /\ c.frame.function_name = CurrentInstruction.function
       /\ status' = "running"
       /\ memory' = memory

\* C13: a Call or CallVoid of f is served by the host ABI whenever the host ABI
\* has a function named f, even when the program defines an f too, and by
\* call_function on the program's f otherwise; the null host ABI has no
\* function, so with it every call goes to call_function.
C13_CallRouting ==
  [][AtCall =>
       /\ CurrentInstruction.function \in available_functions(host_abi)
            => \E inp \in StdinInputs :
                 ServedByHost(call_host_function(host_abi, CurrentInstruction.function,
                                                 ArgValues(Top.values, CurrentInstruction.args),
                                                 memory, next_addr, inp))
       /\ CurrentInstruction.function \notin available_functions(host_abi)
            => ServedByProgram(call_function(program, Len(call_stack), max_stack_depth,
                                             CurrentInstruction.function,
                                             ArgValues(Top.values, CurrentInstruction.args)))
       /\ host_abi = "null"
            => CurrentInstruction.function \notin available_functions(host_abi)
    ]_vars

\* the host's alloc has served a call although the program defines an alloc
\* that would have returned its argument
C13_Witness ==
  /\ source.family = "shadow"
  /\ host_abi = "memory"
  /\ status = "returned"
  /\ request = [name |-> "main", args |-> <<Usize(2)>>]
  /\ result = Ok(Usize(NextAddrStart))

(***************************************************************************)
(* Host calls with the wrong arguments                                     *)
(***************************************************************************)
\* the argument types each host function extracts from its arguments
ExpectedArgs(name) ==
  CASE name \in {"print_i32", "print_char"} -> <<"I32">>
    [] name = "print_i64" -> <<"I64">>
    [] name \in {"alloc", "free"} -> <<"Usize">>
    [] OTHER -> <<>>

\* the next instruction calls a host function with a wrong number of arguments
\* or with an argument of another type than the function expects
WrongHostCall ==
  /\ AtCall
  /\ CurrentInstruction.function \in available_functions(host_abi)
  /\ LET given == ArgValues(Top.values, CurrentInstruction.args)
         expected == ExpectedArgs(CurrentInstruction.function)
     IN \/ Len(given) # Len(expected)
        \/ \E i \in 1..Len(given) : get_type(given[i]) # expected[i]

\* C14: a host function of the console or memory host ABI called with the
\* wrong number of arguments, or with an argument of the wrong type, returns
\* Err, which the VM reports as HostCallError; the call never panics.
C14_WrongHostCallFails == [][WrongHostCall => HostCallFailed]_vars

(***************************************************************************)
(* The counting loop                                                       *)
(***************************************************************************)
\* 0 + 1 + .. + (n - 1)
RECURSIVE SumBelow(_)
SumBelow(n) == IF n <= 0 THEN 0 ELSE SumBelow(n - 1) + (n - 1)

\* the loop has been called on some n >= 0, and every sum it computes fits in
\* i32: the last pass computes i + 1 and acc + i for i = n before it leaves
LoopCalled ==
  /\ source.family = "loop"
  /\ status = "running"
  /\ request.name = "main"
  /\ request.args \in LoopArgs
  /\ request.args[1].v >= 0
  /\ SumBelow(request.args[1].v + 1) <= MaxInt("I32")

\* the call has returned the sum of the numbers below its argument
LoopReturned ==
  /\ status = "returned"
  /\ result = Ok(I32(SumBelow(request.args[1].v)))

\* C15: for every n >= 0 whose partial sums fit in i32, the function whose
\* loop block (i:i32, acc:i32) is re-entered through BrIf with (i+1, acc+i)
\* while i < n terminates in the VM and returns I32(0 + 1 + .. + (n-1)).
C15_LoopSum == LoopCalled ~> LoopReturned

\* the loop called on 10 has returned I32(45)
C15_Witness ==
  /\ source.family = "loop"
  /\ status = "returned"
  /\ request = [name |-> "main", args |-> <<I32(10)>>]
  /\ result = Ok(I32(45))
  /\ SumBelow(10) = 45

(***************************************************************************)
(* Names of a source program                                               *)
(***************************************************************************)
\* the places of a function definition that define a variable: its
\* parameters, the parameters of its blocks and the destinations of its
\* assignments
DefinitionSites(func) ==
  {<<"param", 0, i>> : i \in 1..Len(func.params)}
  \cup UNION {{<<"block_param", b, i>> : i \in 1..Len(func.blocks[b].params)} :
                b \in 1..Len(func.blocks)}
  \cup UNION {{<<"dest", b, i>> : i \in {k \in 1..Len(func.blocks[b].instructions) :
                                          func.blocks[b].instructions[k].kind = "Assign"}} :
                b \in 1..Len(func.blocks)}

NameAt(func, site) ==
  CASE site[1] = "param" -> func.params[site[3]].name
    [] site[1] = "block_param" -> func.blocks[site[2]].params[site[3]].name
    [] site[1] = "dest" -> func.blocks[site[2]].instructions[site[3]].dest.name

\* no function or import name, no block label of a function and no variable
\* name of a function is defined twice
UniqueNames(ast) ==
  /\ \A i, j \in 1..Len(ast.items) : ast.items[i].name = ast.items[j].name => i = j
  /\ \A f \in 1..Len(ast.items) :
       ast.items[f].kind = "Function" =>
         /\ \A b, c \in 1..Len(ast.items[f].blocks) :
              ast.items[f].blocks[b].label = ast.items[f].blocks[c].label => b = c
         /\ \A s, t \in DefinitionSites(ast.items[f]) :
              NameAt(ast.items[f], s) = NameAt(ast.items[f], t) => s = t

\* the lowerer has run on the source
Lowered == source.family # "built" /\ status # "source"

\* C16: the lowerer yields a program only if every function and import name is
\* unique and, within each function, every block label is unique and every
\* variable name is defined once, parameters, block parameters and
\* destinations alike; a second definition is reported as DuplicateDefinition.
C16_DuplicateDefinition ==
  (Lowered /\ ~UniqueNames(AstOf(source)))
    => /\ status = "rejected"
       /\ \E i \in 1..Len(errors) : errors[i] = "DuplicateDefinition"

(***************************************************************************)
(* References to undefined names                                           *)
(***************************************************************************)
\* the error the one defect of an "undef" program calls for
ExpectedError(variant) ==
  CASE variant \in {"variable", "ret", "argument", "call_arg"} -> "UndefinedIdentifier"
    [] variant \in {"block", "brif"} -> "UndefinedBlock"
    [] variant \in {"function", "call_void"} -> "FunctionNotFound"

\* C17: a program whose only defect is one reference to an undefined variable
\* is rejected with exactly one error, UndefinedIdentifier; one branch to an
\* undefined label yields exactly one UndefinedBlock, and one call of an
\* unknown function exactly one FunctionNotFound; the first error causes no
\* other.
C17_OneError ==
  (Lowered /\ source.family = "undef")
    => /\ status = "rejected"
       /\ errors = <<ExpectedError(source.op)>>

\* the lowerer has rejected the program whose assignment reads an undefined
\* variable and whose destination is used afterwards
C17_Witness ==
  /\ source = Source("undef", "", "variable")
  /\ status = "rejected"
  /\ errors = <<"UndefinedIdentifier">>

(***************************************************************************)
(* Comparisons with an I32 destination; sizeof                             *)
(***************************************************************************)
\* the one instruction of a program with one function of one block, if the
\* program has been lowered
OnlyInstruction == program.functions[1].blocks[1].instructions[1]

\* C18: for every operand type t of i32, i64, usize the lowerer accepts
\* d:i32 = t.eq|ne|lt|le|gt|ge(a, b) on operands of type t, as a BinaryOp on
\* operands of type t; only arithmetic and bitwise operations need a
\* destination of type t.
C18_ComparisonDest ==
  (Lowered /\ source.family = "cmp")
    => /\ status # "rejected"
       /\ OnlyInstruction.kind = "BinaryOp"
       /\ OnlyInstruction.ty = TypeNamed(source.ty)

\* the size the VM reports for a type name, in bytes
SizeNamed(t) ==
  CASE t \in {"i32", "f32"} -> 4
    [] t \in {"i64", "f64"} -> 8
    [] t = "usize" -> SizeOfType("Usize")
    [] t = "void" -> 0

\* C19: for each type name T of i32, i64, f32, f64, usize, void the statement
\* x:usize = sizeof.T() lowers without error to a SizeOf instruction, and
\* executing it yields Usize 4, 8, 4, 8, the pointer width and 0.
C19_SizeOf ==
  (Lowered /\ source.family = "sizeof")
    => /\ status # "rejected"
       /\ OnlyInstruction.kind = "SizeOf"
       /\ (status = "returned" /\ request = [name |-> "main", args |-> <<>>])
            => result = Ok(Usize(SizeNamed(source.ty)))

(***************************************************************************)
(* Entry checks of call_function                                           *)
(***************************************************************************)
\* the call has failed with e before a frame was pushed or an instruction run
RefusedWith(e) ==
  /\ status' = "returned"
  /\ result' = Err(e)
  /\ call_stack' = call_stack
  /\ memory' = memory
  /\ next_addr' = next_addr

\* the first check to fail in the order: lookup, argument count and types,
\* stack depth
EntryChecks(name, args) ==
  LET fi == FindFunction(program, name)
      params == program.functions[fi].params
  IN IF fi = 0 THEN RefusedWith("FunctionNotFound")
     ELSE IF Len(args) # Len(params) THEN RefusedWith("InvalidInstruction")
     ELSE IF \E i \in 1..Len(args) : get_type(args[i]) # params[i]
          THEN RefusedWith("TypeMismatch")
     ELSE IF Len(call_stack) >= max_stack_depth THEN RefusedWith("StackOverflow")
     ELSE TRUE

\* C20: call_function checks, in this order, that the function exists, that
\* the arguments agree with the signature in number and in type, and that the
\* stack is not full; the first check to fail decides the error
\* (FunctionNotFound, InvalidInstruction or TypeMismatch, StackOverflow), and
\* then no frame is pushed and no instruction is executed.
C20_EntryChecks == [][OutermostCall => EntryChecks(request'.name, request'.args)]_vars

(***************************************************************************)
(* Shape of a lowered function                                             *)
(***************************************************************************)
\* the lowerer has yielded the program at hand
Yielded == Lowered /\ status # "rejected"

\* the entry block's parameter list begins with the function's parameters
EntryParams(func) ==
  \A i \in 1..Len(func.params) :
    /\ Len(func.blocks) > 0
    /\ Len(func.blocks[1].params) >= i
    /\ func.blocks[1].params[i] = Param(i - 1, func.params[i])

\* C21: in every function the lowerer produces from a source function with N
\* parameters, the entry block's parameter list begins with the N function
\* parameters in signature order: entry.params[i] = (ValueId(i), type i).
C21_EntryParams ==
  Yielded => \A f \in 1..Len(program.functions) : EntryParams(program.functions[f])

\* the k-th block has BlockId k, counting from 0
DenseBlockIds(func) == \A k \in 1..Len(func.blocks) : func.blocks[k].id = k - 1

\* C22: in every program the lowerer yields, for every function, whatever its
\* position among the program's functions, the k-th block in source order has
\* BlockId k counting from 0.
C22_DenseBlockIds ==
  Yielded => \A f \in 1..Len(program.functions) : DenseBlockIds(program.functions[f])

(***************************************************************************)
(* Dominance                                                               *)
(***************************************************************************)
\* the positions of the blocks a block's terminator may go to
Successors(func, b) ==
  LET t == func.blocks[b].terminator
      targets == CASE t.kind = "Br" -> {t.target}
                   [] t.kind = "BrIf" -> {t.true_target, t.false_target}
                   [] OTHER -> {}
  IN {c \in 1..Len(func.blocks) : func.blocks[c].id \in targets}

\* the blocks reached from the blocks of seen without entering block avoid
RECURSIVE ReachedAvoiding(_, _, _)
ReachedAvoiding(func, seen, avoid) ==
  LET more == (UNION {Successors(func, b) : b \in seen}) \ (seen \cup {avoid})
  IN IF more = {} THEN seen ELSE ReachedAvoiding(func, seen \cup more, avoid)

\* the places <<block, position>> that define id: position 0 for a block
\* parameter, i for the destination of the i-th instruction
Definitions(func, id) ==
  {<<b, 0>> : b \in {c \in 1..Len(func.blocks) :
                       \E i \in 1..Len(func.blocks[c].params) : func.blocks[c].params[i].id = id}}
  \cup UNION {{<<b, i>> : i \in {j \in 1..Len(func.blocks[b].instructions) :
                                   /\ HasDest(func.blocks[b].instructions[j])
                                   /\ func.blocks[b].instructions[j].dest = id}} :
                b \in 1..Len(func.blocks)}

\* a function parameter or a literal: defined before the entry block runs
DefinedAtEntry(func, id) == id < Len(func.params) \/ id \in DOMAIN func.constants

\* the use of id at position i of block b comes after a definition in b, or b
\* is reached from the entry block only through a block that defines id
Dominated(func, id, b, i) ==
  \/ DefinedAtEntry(func, id)
  \/ \E d \in Definitions(func, id) :
       \/ d[1] = b /\ d[2] < i
       \/ d[1] # b /\ d[1] # 1 /\ b \notin ReachedAvoiding(func, {1}, d[1])
       \/ d[1] # b /\ d[1] = 1

Dominance(func) ==
  \A b \in 1..Len(func.blocks) :
    /\ \A i \in 1..Len(func.blocks[b].instructions) :
         \A k \in 1..Len(Operands(func.blocks[b].instructions[i])) :
           Dominated(func, Operands(func.blocks[b].instructions[i])[k], b, i)
    /\ \A k \in 1..Len(Operands(func.blocks[b].terminator)) :
         Dominated(func, Operands(func.blocks[b].terminator)[k], b,
                   Len(func.blocks[b].instructions) + 1)

\* C23: every program the lowerer yields satisfies dominance: each use of a
\* variable lies in the defining block after the definition, or in a block
\* that can be reached from the entry block only by passing through the
\* definition.
C23_Dominance ==
  (Yielded /\ status = "lowered")
    => \A f \in 1..Len(program.functions) : Dominance(program.functions[f])

(***************************************************************************)
(* Void                                                                    *)
(***************************************************************************)
\* no parameter, block parameter, destination or literal of func is typed Void
NoVoidValue(func) ==
  /\ \A d \in Declarations(func) : d.ty # "Void"
  /\ \A c \in DOMAIN func.constants : func.constants[c].ty # "Void"

\* C24: in every program the lowerer yields, no SSA value has type Void: no
\* function parameter, block parameter, instruction destination or
\* constants-table entry is typed Void.
C24_NoVoidValue ==
  (Yielded /\ status = "lowered")
    => \A f \in 1..Len(program.functions) : NoVoidValue(program.functions[f])

(***************************************************************************)
(* The call stack across calls                                             *)
(***************************************************************************)
\* a step in which the call_function invocation of the top frame returns: with
\* the value of a Ret, or with the error that is on its way out
ReturnsValue ==
  /\ status = "running"
  /\ TopBlockIndex # 0
  /\ AtTerminator
  /\ TopBlock.terminator.kind = "Ret"
  /\ status' # "unwinding"
ReturnsError == status = "unwinding"

\* the frames that were on the stack when the invocation of the top frame was
\* entered are on it again, those below its caller untouched
BackAtEntryDepth ==
  /\ Len(call_stack') = Len(call_stack) - 1
  /\ \A i \in 1..(Len(call_stack) - 2) : call_stack'[i] = call_stack[i]

\* C25: every return from call_function, with a value or with a VMError raised
\* at any call depth, leaves the call stack at the depth it had when that
\* call_function was entered; after the outermost call returns the stack is
\* empty and the same VM executes further calls.
C25_StackRestored ==
  [][/\ (ReturnsValue \/ ReturnsError) => BackAtEntryDepth
     /\ Len(call_stack') > Len(call_stack)
          => /\ Len(call_stack') = Len(call_stack) + 1
             /\ OutermostCall \/ NestedCall
     /\ status' = "returned" => call_stack' = <<>>
     /\ OutermostCall
          => /\ call_stack = <<>>
             /\ call_function(program, 0, max_stack_depth, request'.name,
                              request'.args).tag = "frame"
                  => /\ status' = "running"
                     /\ Len(call_stack') = 1
    ]_vars

\* a second call on the same VM has run a nested call and returned its value
C25_Witness ==
  /\ source.family = "call"
  /\ calls = 2
  /\ status = "returned"
  /\ request = [name |-> "main", args |-> <<I32(2)>>]
  /\ result = Ok(I32(5))
  /\ call_stack = <<>>

(***************************************************************************)
(* Loads and stores                                                        *)
(***************************************************************************)
\* the next instruction is a Load or a Store of a value at a Usize address,
\* both held in the frame, under the memory host ABI
AtAccess ==
  /\ AtInstruction
  /\ host_abi = "memory"
  /\ CurrentInstruction.kind \in {"Load", "Store"}
  /\ AllPresent(Top.values, Operands(CurrentInstruction))
  /\ get_type(Top.values[CurrentInstruction.address]) = "Usize"

AccessAddress == Top.values[CurrentInstruction.address].v

\* the number of bytes the access reads or writes
AccessSize ==
  IF CurrentInstruction.kind = "Load" THEN SizeOfType(CurrentInstruction.ty)
  ELSE SizeOfType(get_type(Top.values[CurrentInstruction.value]))

\* the bytes [a, a + s) lie inside one live allocation
InsideLive(a, s) == \E b \in DOMAIN memory : b <= a /\ a + s <= b + Len(memory[b])

\* the instruction has gone through: the frame is at the next instruction
Succeeded ==
  /\ status' = "running"
  /\ Len(call_stack') = Len(call_stack)
  /\ call_stack'[Len(call_stack)].instruction_pointer = Top.instruction_pointer + 1

\* the instruction has failed with an error that call_function returns
FailedWithError == status' = "unwinding" /\ result'.tag = "err"

\* C26: under the memory host ABI a Load or Store of s bytes at a succeeds only
\* if [a, a + s) lies inside one live allocation; every other access (before,
\* past or straddling an allocation, at 0, inside a freed allocation) makes
\* call_function return an error and changes no allocation's contents.
C26_AccessInsideLive ==
  [][AtAccess =>
       /\ Succeeded => InsideLive(AccessAddress, AccessSize)
       /\ ~InsideLive(AccessAddress, AccessSize) => (FailedWithError /\ memory' = memory)
    ]_vars

(***************************************************************************)
(* The allocator                                                           *)
(***************************************************************************)
\* the next instruction asks the memory host ABI's alloc for memory: an Alloc,
\* or a Call of "alloc", with its Usize argument in the frame
AtAlloc ==
  /\ AtInstruction
  /\ host_abi = "memory"
  /\ \/ CurrentInstruction.kind = "Alloc"
     \/ CurrentInstruction.kind = "Call" /\ CurrentInstruction.function = "alloc"
  /\ AllPresent(Top.values, Operands(CurrentInstruction))

\* the address the alloc that has just gone through returned
Returned == call_stack'[Len(call_stack)].values[CurrentInstruction.dest].v

\* every range alloc has returned so far, live or freed, ends at or below b
AboveEarlierRanges(b) == b >= next_addr

\* C27: on one memory host ABI instance every non-zero address alloc returns is
\* the base of a new live range that lies above next_addr, and next_addr never
\* falls and stays above every range returned so far; so the range is disjoint
\* from every range returned earlier, freed or not: live allocations never
\* overlap and a freed address is never handed out again.
C27_FreshAddresses ==
  [][status # "lowered" =>
       /\ next_addr' >= next_addr
       /\ \A b \in DOMAIN memory' : b + Len(memory'[b]) <= next_addr'
       /\ \A b \in DOMAIN memory' \ DOMAIN memory :
            b # 0 /\ AboveEarlierRanges(b)
       /\ \A b, c \in DOMAIN memory' :
            b < c => b + Len(memory'[b]) <= c
       /\ (AtAlloc /\ Succeeded /\ Returned # 0) =>
            /\ Returned \in DOMAIN memory' \ DOMAIN memory
            /\ Len(memory'[Returned]) > 0
    ]_vars

\* a second call on the same VM has allocated after the first call's
\* allocations were freed: the new allocation is not at the freed base
C27_Witness ==
  /\ source.family = "roundtrip"
  /\ host_abi = "memory"
  /\ calls = 2
  /\ status = "running"
  /\ NextAddrStart \notin DOMAIN memory
  /\ \E b \in DOMAIN memory : b > NextAddrStart
  /\ next_addr > NextAddrStart

\* the next instruction is a Store of a value at a Usize address
AtStore == AtAccess /\ CurrentInstruction.kind = "Store"

\* byte i (from 1) of the allocation at b lies in [a, a + s)
Written(b, i, a, s) == a <= b + i - 1 /\ b + i - 1 < a + s

\* the little-endian bytes of the value the Store writes
StoredBytes ==
  LET value == Top.values[CurrentInstruction.value]
  IN to_le_bytes(value.v % Pow2(BitsOf(value.ty)), SizeOfType(value.ty))

\* C28: a successful Store of s bytes at a changes exactly the bytes [a, a + s)
\* of the allocation that contains a: they now hold the value; every other
\* byte of that allocation, the contents of every other allocation and the
\* set of live allocations are as they were.
C28_StoreFrame ==
  [][(AtStore /\ Succeeded) =>
       /\ DOMAIN memory' = DOMAIN memory
       /\ \A b \in DOMAIN memory :
            /\ Len(memory'[b]) = Len(memory[b])
            /\ \A i \in 1..Len(memory[b]) :
                 IF Written(b, i, AccessAddress, AccessSize)
                 THEN memory'[b][i] = StoredBytes[b + i - AccessAddress]
                 ELSE memory'[b][i] = memory[b][i]
    ]_vars

\* a Store has written the middle of an allocation between a byte before it
\* and bytes after it, with a second allocation live and keeping its contents
C28_Witness ==
  /\ source = Source("access", "", "wide")
  /\ host_abi = "memory"
  /\ status = "running"
  /\ calls = 1
  /\ request = [name |-> "main", args |-> <<Usize(NextAddrStart + 1), I32(0 - 1)>>]
  /\ Top.instruction_pointer = 4
  /\ Len(memory[NextAddrStart]) = 8
  /\ memory[NextAddrStart][1] = 0
  /\ memory[NextAddrStart][2] # 0
  /\ memory[NextAddrStart][5] # 0
  /\ memory[NextAddrStart][6] = 0
  /\ \E b \in DOMAIN memory : b # NextAddrStart /\ memory[b][1] # 0

(***************************************************************************)
(* Frames across calls                                                     *)
(***************************************************************************)
\* the frame under the top frame: the caller of the function that is running
Caller == call_stack[Len(call_stack) - 1]

\* the step is a successful return of the top frame's function to its caller
ReturnsToCaller ==
  /\ status = "running"
  /\ Len(call_stack) >= 2
  /\ status' = "running"
  /\ Len(call_stack') = Len(call_stack) - 1

\* the step pushes the frame of a callee on top of the frame that called
CallsProgram ==
  /\ status = "running"
  /\ Len(call_stack') = Len(call_stack) + 1

\* the caller's frame after the return is its frame before it, with the call's
\* dest set and the instruction pointer moved past the call
CallerKept ==
  LET call == InstructionAt(Caller)
      after == call_stack'[Len(call_stack) - 1]
      written == IF call.kind = "Call" THEN {call.dest} ELSE {}
  IN /\ call.kind \in {"Call", "CallVoid"}
     /\ after.function_name = Caller.function_name
     /\ after.current_block = Caller.current_block
     /\ after.instruction_pointer = Caller.instruction_pointer + 1
     /\ DOMAIN after.values = DOMAIN Caller.values \cup written
     /\ \A id \in DOMAIN Caller.values \ written : after.values[id] = Caller.values[id]

\* C29: while a callee runs, the frames under it stay as the call left them,
\* and when a Call or CallVoid of a program function returns successfully (a
\* recursive call included) the caller's frame is as it was just before the
\* call but for the call's dest and the step past the call: same block, and
\* every other value unchanged whatever the callee wrote under the same ids.
C29_CallerFrameKept ==
  [][/\ CallsProgram => SubSeq(call_stack', 1, Len(call_stack)) = call_stack
     /\ \A i \in 1..(Len(call_stack) - 1) :
          i <= Len(call_stack') =>
            \/ call_stack'[i] = call_stack[i]
            \/ i = Len(call_stack) - 1 /\ ReturnsToCaller
     /\ ReturnsToCaller => CallerKept
    ]_vars

\* bits has returned from a call of itself to a frame of itself: the caller
\* holds its own n, c and h although the callee held other values for them
C29_Witness ==
  /\ source.family = "bits"
  /\ status = "running"
  /\ request = [name |-> "bits", args |-> <<I32(2)>>]
  /\ Len(call_stack) = 2
  /\ Top.function_name = "bits"
  /\ call_stack[1].function_name = "bits"
  /\ Top.instruction_pointer = 3
  /\ ~AtTerminator
  /\ CurrentInstruction.kind = "BinaryOp"
  /\ Top.values[0] = I32(1)
  /\ Top.values[TopBlock.instructions[3].dest] = I32(0)

(***************************************************************************)
(* Branches with arguments                                                 *)
(***************************************************************************)
\* the parameters of the block the branch goes to
TargetParams == TopFunction.blocks[FindBlock(TopFunction, Taken.target)].params

\* the arm passes as many arguments as its target has parameters, all of them
\* values of the frame
ArgumentsFit ==
  /\ FindBlock(TopFunction, Taken.target) # 0
  /\ Len(Taken.args) = Len(TargetParams)
  /\ AllPresent(Top.values, Taken.args)

\* C30: after a Br, or the taken arm of a BrIf, with arguments a_1..a_k to a
\* block with parameters p_1..p_k, every p_i holds the value a_i had just
\* before the branch, all at once, also when an a_j is itself a parameter of
\* the target (a back-edge that swaps two parameters), and the frame is at
\* instruction 0 of the target block.
C30_ParallelBinding ==
  [][(AtBranch /\ ArgumentsFit) =>
       /\ status' = "running"
       /\ Len(call_stack') = Len(call_stack)
       /\ call_stack'[Len(call_stack)].current_block = Taken.target
       /\ call_stack'[Len(call_stack)].instruction_pointer = 0
       /\ \A i \in 1..Len(TargetParams) :
            /\ HasValue(call_stack'[Len(call_stack)].values, TargetParams[i].id)
            /\ call_stack'[Len(call_stack)].values[TargetParams[i].id]
                 = Top.values[Taken.args[i]]
    ]_vars

\* the back-edge loop(y, x) has been taken from loop(x, y) with x = -1, y = 2:
\* the frame is at the head of loop with x = 2 and y = -1
C30_Witness ==
  /\ source.family = "swap"
  /\ status = "running"
  /\ request = [name |-> "main", args |-> <<I32(0 - 1), I32(2)>>]
  /\ TopBlockIndex = 2
  /\ Top.instruction_pointer = 0
  /\ Len(TopBlock.params) = 2
  /\ Top.values[TopBlock.params[1].id] = I32(2)
  /\ Top.values[TopBlock.params[2].id] = I32(0 - 1)

=============================================================================
